---- MODULE Spec2Model ----
(***************************************************************************)
(* A model of the OCR field-extraction pipeline of MEDiSCAN-AI             *)
(* (src/services/Backend APIS/ocr-service) and, at the end, of the users   *)
(* and medical-records handlers of its main API (main-api).  Texts are TLA+ strings; the   *)
(* regular expressions of the source are written as syntax trees and run   *)
(* by a backtracking matcher with the semantics of Python's re module      *)
(* (leftmost match, alternatives in order, greedy/lazy repetition, groups).*)
(* Python values are tagged records: None, str, int.                       *)
(*                                                                         *)
(* Stand-ins for characters a TLA+ string cannot hold: "~" is the degree   *)
(* sign, "^" is a Unicode dash of the normalizer's class (en dash, em dash, *)
(* minus sign), "=" is any other Unicode dash (hyphen U+2010, figure dash, *)
(* horizontal bar).                                                        *)
(***************************************************************************)
EXTENDS Integers, Sequences, FiniteSets, TLC

VARIABLES
  req,      \* the request being served: [kind, text, data]; kind is "text" for a
            \* direct call, "json" for a JSON body, "file" for an upload; data is
            \* the OCR word data of an upload, a sequence of <<word, conf>>, or the
            \* arguments <<lines, labels>> of a direct call of a label lookup
  pc,       \* "call" before the operation has run, then the operation's name
  ret,      \* what the operation returned (a Python value or a record of them)
  _NLP,     \* parse_enhanced._NLP: the lazily loaded NER handle
  first,    \* the first request served by the process and its response
  db,       \* main-api: the MySQL tables users, doctors and medical_records,
            \* each a set of rows, and their AUTO_INCREMENT counters
  issued    \* main-api: the payloads of the access tokens issued so far

vars == <<req, pc, ret, _NLP, first, db, issued>>

(***************************************************************************)
(* Python values                                                           *)
(***************************************************************************)
None == [t |-> "None", v |-> ""]
PyStr(s) == [t |-> "str", v |-> s]
PyInt(n) == [t |-> "int", v |-> n]
IsNone(x) == x.t = "None"
\* Python truthiness: None, "" and 0 are false
Truthy(x) == CASE x.t = "None" -> FALSE
               [] x.t = "str" -> x.v # ""
               [] x.t = "int" -> x.v # 0
\* Python's (a or b)
Or(a, b) == IF Truthy(a) THEN a ELSE b
\* dict.get(k): None for a key that the dict does not have
Get(d, k) == IF k \in DOMAIN d THEN d[k] ELSE None

(***************************************************************************)
(* Characters and str methods                                              *)
(***************************************************************************)
CharsOf(str) == {SubSeq(str, i, i) : i \in 1..Len(str)}
Upper == CharsOf("ABCDEFGHIJKLMNOPQRSTUVWXYZ")
Lower == CharsOf("abcdefghijklmnopqrstuvwxyz")
Digit == CharsOf("0123456789")
Alpha == Upper \cup Lower
Alnum == Alpha \cup Digit
Space == {" ", "\t", "\n", "\r"}
Word == Alnum \cup {"_"}
ToLowerMap ==
  [A |-> "a", B |-> "b", C |-> "c", D |-> "d", E |-> "e", F |-> "f", G |-> "g",
   H |-> "h", I |-> "i", J |-> "j", K |-> "k", L |-> "l", M |-> "m", N |-> "n",
   O |-> "o", P |-> "p", Q |-> "q", R |-> "r", S |-> "s", T |-> "t", U |-> "u",
   V |-> "v", W |-> "w", X |-> "x", Y |-> "y", Z |-> "z"]
ToUpperMap ==
  [a |-> "A", b |-> "B", c |-> "C", d |-> "D", e |-> "E", f |-> "F", g |-> "G",
   h |-> "H", i |-> "I", j |-> "J", k |-> "K", l |-> "L", m |-> "M", n |-> "N",
   o |-> "O", p |-> "P", q |-> "Q", r |-> "R", s |-> "S", t |-> "T", u |-> "U",
   v |-> "V", w |-> "W", x |-> "X", y |-> "Y", z |-> "Z"]
LowerCh(c) == IF c \in Upper THEN ToLowerMap[c] ELSE c
UpperCh(c) == IF c \in Lower THEN ToUpperMap[c] ELSE c
At(s, i) == SubSeq(s, i, i)

SetMin(S) == CHOOSE a \in S : \A b \in S : a <= b
SetMax(S) == CHOOSE a \in S : \A b \in S : b <= a

\* str.lower() and str.upper(), by halves so that the evaluation stays shallow
RECURSIVE lower(_)
lower(s) ==
  IF Len(s) = 0 THEN ""
  ELSE IF Len(s) = 1 THEN LowerCh(s)
  ELSE lower(SubSeq(s, 1, Len(s) \div 2)) \o lower(SubSeq(s, Len(s) \div 2 + 1, Len(s)))
RECURSIVE upper(_)
upper(s) ==
  IF Len(s) = 0 THEN ""
  ELSE IF Len(s) = 1 THEN UpperCh(s)
  ELSE upper(SubSeq(s, 1, Len(s) \div 2)) \o upper(SubSeq(s, Len(s) \div 2 + 1, Len(s)))

\* str.strip(chars): drop the leading and trailing characters that are in cs
strip_chars(s, cs) ==
  LET keep == {i \in 1..Len(s) : At(s, i) \notin cs}
  IN  IF keep = {} THEN "" ELSE SubSeq(s, SetMin(keep), SetMax(keep))
strip(s) == strip_chars(s, Space)

\* (sub in s): substring test
Contains(s, sub) ==
  \E i \in 1..(Len(s) - Len(sub) + 1) : SubSeq(s, i, i + Len(sub) - 1) = sub
startswith(s, p) == Len(p) <= Len(s) /\ SubSeq(s, 1, Len(p)) = p


\* the pieces of s between the positions in cuts (each cut character dropped),
\* in order: str.split(sep) for a one-character separator
Pieces(s, cuts) ==
  LET edge == cuts \cup {0, Len(s) + 1}
      nxt(p) == SetMin({q \in edge : q > p})
      starts == edge \ {Len(s) + 1}
      kth(k) == CHOOSE p \in starts : Cardinality({q \in starts : q < p}) = k - 1
  IN  [k \in 1..Cardinality(starts) |-> SubSeq(s, kth(k) + 1, nxt(kth(k)) - 1)]
split_nl(s) == Pieces(s, {i \in 1..Len(s) : At(s, i) = "\n"})
\* str.splitlines(): like split on line ends, without a last empty piece
splitlines(s) ==
  LET crlf == {i \in 1..Len(s) : At(s, i) = "\n" /\ i > 1 /\ At(s, i - 1) = "\r"}
      ends == {i \in 1..Len(s) : At(s, i) \in {"\n", "\r"}} \ {i - 1 : i \in crlf}
      ps == Pieces(s, ends)
      t == [k \in 1..Len(ps) |-> IF Len(ps[k]) > 0 /\ At(ps[k], Len(ps[k])) = "\r"
                                 THEN SubSeq(ps[k], 1, Len(ps[k]) - 1) ELSE ps[k]]
  IN  IF Len(t) > 0 /\ t[Len(t)] = "" THEN SubSeq(t, 1, Len(t) - 1) ELSE t
\* str.split(): the whitespace-separated words
words(s) ==
  LET st == {i \in 1..Len(s) : At(s, i) \notin Space /\ (i = 1 \/ At(s, i - 1) \in Space)}
      en(p) == SetMin({q \in p..Len(s) : q = Len(s) \/ At(s, q + 1) \in Space})
      kth(k) == CHOOSE p \in st : Cardinality({q \in st : q < p}) = k - 1
  IN  [k \in 1..Cardinality(st) |-> SubSeq(s, kth(k), en(kth(k)))]

(***************************************************************************)
(* Python's re: patterns as trees, matched by backtracking                 *)
(***************************************************************************)
Lit(str) == [op |-> "lit", s |-> str]
Cls(set) == [op |-> "cls", set |-> set, neg |-> FALSE]
NotCls(set) == [op |-> "cls", set |-> set, neg |-> TRUE]
Dot == [op |-> "dot"]
Cat(rs) == [op |-> "cat", rs |-> rs]
Alt(rs) == [op |-> "alt", rs |-> rs]
\* r{lo,hi}; hi = -1 is no upper limit
Rep(r, lo, hi) == [op |-> "rep", r |-> r, lo |-> lo, hi |-> hi, lazy |-> FALSE]
Lazy(rep) == [rep EXCEPT !.lazy = TRUE]
Star(r) == Rep(r, 0, -1)
Plus(r) == Rep(r, 1, -1)
Opt(r) == Rep(r, 0, 1)
Grp(n, r) == [op |-> "grp", n |-> n, r |-> r]
WordB == [op |-> "wb"]
Bol == [op |-> "bol"]
Eol == [op |-> "eol"]
Ahead(r) == [op |-> "ahead", r |-> r]
Eos == [op |-> "eos"]

\* a group that did not take part in the match is <<0, 0>>
NoGroups == <<<<0, 0>>, <<0, 0>>, <<0, 0>>>>
NoMatch == [ok |-> FALSE, s |-> "", b |-> 0, e |-> 0, g |-> NoGroups]

LitAt(l, s, i, ic) ==
  /\ i + Len(l) - 1 <= Len(s)
  /\ IF ic THEN \A j \in 1..Len(l) : LowerCh(At(l, j)) = LowerCh(At(s, i + j - 1))
           ELSE SubSeq(s, i, i + Len(l) - 1) = l
\* does the one-character pattern h (a class or a dot) accept the character at p
CharOk(h, s, p, ic, dotall) ==
  /\ p <= Len(s)
  /\ LET c == At(s, p)
     IN  IF h.op = "dot" THEN dotall \/ c # "\n"
         ELSE LET in == IF ic THEN c \in h.set \/ LowerCh(c) \in h.set \/ UpperCh(c) \in h.set
                              ELSE c \in h.set
              IN  in # h.neg
\* how many characters from i on h accepts, at most hi of them
RunLen(h, s, i, hi, ic, dotall) ==
  LET lim == IF hi = -1 \/ hi > Len(s) + 1 - i THEN Len(s) + 1 - i ELSE hi
      bad == {p \in i..(i + lim - 1) : ~CharOk(h, s, p, ic, dotall)}
  IN  IF bad = {} THEN lim ELSE SetMin(bad) - i
IsWordAt(s, i) == i >= 1 /\ i <= Len(s) /\ At(s, i) \in Word

\* Match the patterns of k one after the other from position i of s; fl holds
\* the flags (ic: IGNORECASE, dotall: DOTALL).  The first way to match, in the
\* order Python tries them, is the result.
RECURSIVE RxM(_, _, _, _, _)
RxM(k, s, i, g, fl) ==
  IF k = <<>> THEN [ok |-> TRUE, s |-> s, b |-> 0, e |-> i, g |-> g]
  ELSE
  LET h == Head(k)
      r == Tail(k)
  IN CASE h.op = "lit" ->
            IF LitAt(h.s, s, i, fl.ic) THEN RxM(r, s, i + Len(h.s), g, fl) ELSE NoMatch
       [] h.op \in {"cls", "dot"} ->
            IF CharOk(h, s, i, fl.ic, fl.dotall) THEN RxM(r, s, i + 1, g, fl) ELSE NoMatch
       [] h.op = "cat" -> RxM(h.rs \o r, s, i, g, fl)
       [] h.op = "alt" ->
            IF Len(h.rs) = 0 THEN NoMatch
            ELSE IF Len(h.rs) = 1 THEN RxM(h.rs \o r, s, i, g, fl)
            ELSE LET half == Len(h.rs) \div 2
                     a == RxM(<<Alt(SubSeq(h.rs, 1, half))>> \o r, s, i, g, fl)
                 IN  IF a.ok THEN a
                     ELSE RxM(<<Alt(SubSeq(h.rs, half + 1, Len(h.rs)))>> \o r, s, i, g, fl)
       [] h.op = "rep" /\ h.r.op \in {"cls", "dot"} ->
            \* a repeated single character: the run is measured at once and the
            \* counts are tried longest first (greedy) or shortest first (lazy)
            LET n == RunLen(h.r, s, i, h.hi, fl.ic, fl.dotall)
            IN  IF n < h.lo THEN NoMatch
                ELSE IF h.lazy
                THEN RxM(<<[op |-> "try", c |-> h.lo, n |-> n - h.lo + 1, by |-> 1]>> \o r, s, i, g, fl)
                ELSE RxM(<<[op |-> "try", c |-> n, n |-> n - h.lo + 1, by |-> -1]>> \o r, s, i, g, fl)
       [] h.op = "try" ->
            \* the counts c, c + by, ... (n of them), in this order, by halves
            IF h.n = 1 THEN RxM(r, s, i + h.c, g, fl)
            ELSE LET half == h.n \div 2
                     a == RxM(<<[h EXCEPT !.n = half]>> \o r, s, i, g, fl)
                 IN  IF a.ok THEN a
                     ELSE RxM(<<[h EXCEPT !.c = h.c + h.by * half, !.n = h.n - half]>> \o r, s, i, g, fl)
       [] h.op = "rep" /\ h.r.op \notin {"cls", "dot"} ->
            LET more == [h EXCEPT !.lo = IF h.lo > 0 THEN h.lo - 1 ELSE 0,
                                  !.hi = IF h.hi = -1 THEN -1 ELSE h.hi - 1]
                again == IF h.hi = 0 THEN NoMatch ELSE RxM(<<h.r, more>> \o r, s, i, g, fl)
                stop == IF h.lo > 0 THEN NoMatch ELSE RxM(r, s, i, g, fl)
            IN  IF h.lazy
                THEN IF stop.ok THEN stop ELSE again
                ELSE IF again.ok THEN again ELSE stop
       [] h.op = "grp" -> RxM(<<h.r, [op |-> "close", n |-> h.n, at |-> i]>> \o r, s, i, g, fl)
       [] h.op = "close" -> RxM(r, s, i, [g EXCEPT ![h.n] = <<h.at, i>>], fl)
       [] h.op = "wb" ->
            IF IsWordAt(s, i - 1) # IsWordAt(s, i) THEN RxM(r, s, i, g, fl) ELSE NoMatch
       [] h.op = "bol" -> IF i = 1 THEN RxM(r, s, i, g, fl) ELSE NoMatch
       [] h.op = "eol" ->
            IF i = Len(s) + 1 \/ (i = Len(s) /\ At(s, i) = "\n")
            THEN RxM(r, s, i, g, fl) ELSE NoMatch
       [] h.op = "eos" -> IF i = Len(s) + 1 THEN RxM(r, s, i, g, fl) ELSE NoMatch
       [] h.op = "ahead" ->
            IF RxM(<<h.r>>, s, i, g, fl).ok THEN RxM(r, s, i, g, fl) ELSE NoMatch

\* re.search from a start position in lo..hi: the leftmost start that matches
RECURSIVE SearchIn(_, _, _, _, _)
SearchIn(re, s, lo, hi, fl) ==
  IF lo > hi THEN NoMatch
  ELSE IF lo = hi THEN [RxM(<<re>>, s, lo, NoGroups, fl) EXCEPT !.b = lo]
  ELSE LET mid == (lo + hi) \div 2
           a == SearchIn(re, s, lo, mid, fl)
       IN  IF a.ok THEN a ELSE SearchIn(re, s, mid + 1, hi, fl)
Flags(ic, dotall) == [ic |-> ic, dotall |-> dotall]
\* re.search(re, s) and re.search(re, s, flags=re.IGNORECASE)
search(re, s) == SearchIn(re, s, 1, Len(s) + 1, Flags(FALSE, FALSE))
isearch(re, s) == SearchIn(re, s, 1, Len(s) + 1, Flags(TRUE, FALSE))
\* re.match(re, s), re.fullmatch(re, s) and re.fullmatch(re, s, flags=re.IGNORECASE)
match(re, s) == [RxM(<<re>>, s, 1, NoGroups, Flags(FALSE, FALSE)) EXCEPT !.b = 1]
fullmatch(re, s) == [RxM(<<re, Eos>>, s, 1, NoGroups, Flags(FALSE, FALSE)) EXCEPT !.b = 1]
ifullmatch(re, s) == [RxM(<<re, Eos>>, s, 1, NoGroups, Flags(TRUE, FALSE)) EXCEPT !.b = 1]
\* m.group(n) as a Python value, and as text ("" when the group is None)
group(m, n) ==
  IF n = 0 THEN PyStr(SubSeq(m.s, m.b, m.e - 1))
  ELSE IF m.g[n] = <<0, 0>> THEN None
  ELSE PyStr(SubSeq(m.s, m.g[n][1], m.g[n][2] - 1))
gtext(m, n) == group(m, n).v

(***************************************************************************)
(* Rewriting a string character by character (str.replace and re.sub with  *)
(* a fixed replacement), by halves                                         *)
(***************************************************************************)
\* what the character at p of s becomes under a rule
Emit(rule, s, p) ==
  LET c == At(s, p)
      bar(q) == q >= 1 /\ q <= Len(s) /\ At(s, q) \in {"_", "|"}
  IN  CASE rule = "crlf" ->      \* s.replace('\r\n', '\n')
             IF c = "\r" /\ p < Len(s) /\ At(s, p + 1) = "\n" THEN "" ELSE c
        [] rule = "cr" ->        \* re.sub(r"\r\n|\r", "\n", s)
             IF c # "\r" THEN c ELSE IF p < Len(s) /\ At(s, p + 1) = "\n" THEN "" ELSE "\n"
        [] rule = "tab" ->       \* s.replace('\t', ' ')
             IF c = "\t" THEN " " ELSE c
        [] rule = "bars" ->      \* re.sub(r'[_\|]{2,}', '-', s)
             IF ~bar(p) THEN c
             ELSE IF bar(p - 1) THEN ""
             ELSE IF bar(p + 1) THEN "-" ELSE c
        [] rule = "dash" ->      \* re.sub('[en dash, em dash, minus]', '-', s)
             IF c = "^" THEN "-" ELSE c
        [] rule = "spaces" ->    \* re.sub(r'\s+', ' ', s)
             IF c \notin Space THEN c
             ELSE IF p > 1 /\ At(s, p - 1) \in Space THEN "" ELSE " "
        [] rule = "nospace" ->   \* re.sub(r"\s+", "", s)
             IF c \in Space THEN "" ELSE c
        [] rule = "alnum" ->     \* re.sub(r"[^A-Za-z0-9]", '', s)
             IF c \in Alnum THEN c ELSE ""
RECURSIVE RewriteIn(_, _, _, _)
RewriteIn(rule, s, lo, hi) ==
  IF lo > hi THEN ""
  ELSE IF lo = hi THEN Emit(rule, s, lo)
  ELSE RewriteIn(rule, s, lo, (lo + hi) \div 2) \o RewriteIn(rule, s, (lo + hi) \div 2 + 1, hi)
Rewrite(rule, s) == RewriteIn(rule, s, 1, Len(s))

(***************************************************************************)
(* float(str), round and the formatting of a float (f"{x}")                *)
(* A float is n / 10^d, written [n |-> n, d |-> d]: exact for the short    *)
(* decimals the patterns capture.                                          *)
(***************************************************************************)
DigitVal(c) == CHOOSE k \in 0..9 : At("0123456789", k + 1) = c
RECURSIVE ToInt(_)
ToInt(s) == IF Len(s) = 0 THEN 0 ELSE 10 * ToInt(SubSeq(s, 1, Len(s) - 1)) + DigitVal(At(s, Len(s)))
RECURSIVE IntStr(_)
IntStr(n) == IF n < 10 THEN At("0123456789", n + 1) ELSE IntStr(n \div 10) \o At("0123456789", (n % 10) + 1)
RECURSIVE Pow10(_)
Pow10(d) == IF d = 0 THEN 1 ELSE 10 * Pow10(d - 1)
\* float("12.50") is 1250 / 10^2
ToFloat(s) ==
  LET dots == {i \in 1..Len(s) : At(s, i) = "."}
  IN  IF dots = {} THEN [n |-> ToInt(s), d |-> 0]
      ELSE LET p == SetMin(dots)
           IN  [n |-> ToInt(SubSeq(s, 1, p - 1) \o SubSeq(s, p + 1, Len(s))), d |-> Len(s) - p]
\* a / b rounded to the nearest integer, ties to even (Python's round), b > 0
RoundDiv(a, b) ==
  LET q == a \div b
      r == a % b
  IN  IF 2 * r > b \/ (2 * r = b /\ q % 2 = 1) THEN q + 1 ELSE q
\* repr of the float n / 10^d: the shortest decimal, with at least one decimal
FloatStr(f) ==
  LET neg == f.n < 0
      a == IF neg THEN -f.n ELSE f.n
      ip == a \div Pow10(f.d)
      fp == a % Pow10(f.d)
      fs == IntStr(Pow10(f.d) + fp)          \* "1" and then the d decimals
      last == {i \in 2..Len(fs) : At(fs, i) # "0"}
      dec == IF last = {} THEN "0" ELSE SubSeq(fs, 2, SetMax(last))
  IN  (IF neg THEN "-" ELSE "") \o IntStr(ip) \o "." \o dec

(***************************************************************************)
(* parse_enhanced.py                                                       *)
(***************************************************************************)
\* _normalize_ocr_noise returning s without the final strip()
_normalize_unstripped(s) ==
  IF s = "" THEN ""
  ELSE Rewrite("spaces", Rewrite("dash", Rewrite("bars", Rewrite("tab", Rewrite("crlf", s)))))
_normalize_ocr_noise(s) ==
  IF s = "" THEN ""
  ELSE strip(Rewrite("spaces", Rewrite("dash", Rewrite("bars", Rewrite("tab", Rewrite("crlf", s))))))

\* [l.strip() for l in ls if l.strip()]
StripLines(ls) ==
  LET NotBlank(l) == strip(l) # ""
      keep == SelectSeq(ls, NotBlank)
  IN  [k \in 1..Len(keep) |-> strip(keep[k])]
_lines(txt) == StripLines(splitlines(_normalize_ocr_noise(txt)))

Sep == Cat(<<Star(Cls(Space)), Opt(Cls({":", "-"})), Star(Cls(Space))>>)
\* _find_label_value with the list order first: the first synonym of the list
\* that some line holds decides
_find_label_value_by_list(lines, labels) ==
  LET one(l) == Cat(<<Lit(l), Sep, Grp(1, Plus(Dot))>>)
      on(k) == {i \in 1..Len(lines) : isearch(one(labels[k]), lines[i]).ok}
      pick(hit) == IF hit = {} THEN None
                   ELSE PyStr(strip(gtext(isearch(one(labels[SetMin(hit)]), lines[SetMin(on(SetMin(hit)))]), 1)))
  IN  pick({k \in 1..Len(labels) : on(k) # {}})
_find_label_value(lines, labels) ==
  LET pattern == Cat(<<Alt([k \in 1..Len(labels) |-> Lit(labels[k])]), Sep, Grp(1, Plus(Dot))>>)
      hit == {k \in 1..Len(lines) : isearch(pattern, lines[k]).ok}
  IN  IF hit = {} THEN None
      ELSE PyStr(strip(gtext(isearch(pattern, lines[SetMin(hit)]), 1)))

_normalize_patient_id(raw0) ==
  IF raw0 = "" THEN None
  ELSE LET raw == strip(raw0)
           m == isearch(Cat(<<Grp(1, Alt(<<Lit("PID"), Lit("MRN"), Lit("ID")>>)),
                              Star(Cls(Space \cup {":", "-"})),
                              Grp(2, Plus(Cls(Alnum \cup {"-"})))>>), raw)
           compact == Rewrite("alnum", raw)
       IN  IF m.ok THEN PyStr(upper(gtext(m, 1)) \o "-" \o upper(gtext(m, 2)))
           ELSE IF 4 <= Len(compact) /\ Len(compact) <= 20 THEN PyStr(upper(compact))
           ELSE None

\* the bare tokens of the fallback: PID or MRN with 3 digits or more, or 6
\* to 12 capitals and digits
IdToken ==
  Cat(<<WordB,
        Grp(1, Alt(<<Cat(<<Lit("PID"), Opt(Cls({"-"} \cup Space)), Rep(Cls(Digit), 3, -1)>>),
                     Cat(<<Lit("MRN"), Opt(Cls({"-"} \cup Space)), Rep(Cls(Digit), 3, -1)>>),
                     Rep(Cls(Upper \cup Digit), 6, 12)>>)),
        WordB>>)
IdLabels == <<"Patient ID", "PatientID", "MRN", "ID", "PID", "Hospital No", "HNo", "Record No">>
_extract_patient_id(lines) ==
  LET val == _find_label_value(lines, IdLabels)
      tok == IdToken
      hit == {k \in 1..Len(lines) : search(tok, lines[k]).ok}
  IN  IF Truthy(val) THEN _normalize_patient_id(val.v)
      ELSE IF hit = {} THEN None
      ELSE _normalize_patient_id(gtext(search(tok, lines[SetMin(hit)]), 1))

\* _extract_vital_regex taking the match that starts first in the text, whatever
\* the pattern's place in the list
_extract_vital_leftmost(txt, patterns) ==
  LET value(groups) == PyStr(Rewrite("nospace", groups[1].v) \o "/" \o Rewrite("nospace", groups[2].v))
      of(m) == value(<<group(m, 1), group(m, 2)>>)
      start(k) == isearch(patterns[k], txt).b
      pick(hit) == IF hit = {} THEN None
                   ELSE of(isearch(patterns[CHOOSE k \in hit : \A j \in hit : start(k) < start(j) \/ (start(k) = start(j) /\ k <= j)], txt))
  IN  pick({k \in 1..Len(patterns) : isearch(patterns[k], txt).ok})
\* the patterns are tried in order; the first that matches anywhere decides
_extract_vital_regex(txt, patterns) ==
  LET value(m, groups) ==
        IF Len(groups) > 0
        THEN IF Len(groups) > 1 /\ \A k \in 1..Len(groups) : At(groups[k].v, 1) \in Digit
             THEN PyStr(Rewrite("nospace", groups[1].v) \o "/" \o Rewrite("nospace", groups[2].v)
                        \o (IF Len(groups) > 2 THEN "/" \o Rewrite("nospace", groups[3].v) ELSE ""))
             ELSE groups[1]
        ELSE PyStr(strip(gtext(m, 0)))
      of(m) == value(m, SelectSeq(<<group(m, 1), group(m, 2), group(m, 3)>>, Truthy))
      pick(hit) == IF hit = {} THEN None ELSE of(isearch(patterns[SetMin(hit)], txt))
  IN  pick({k \in 1..Len(patterns) : isearch(patterns[k], txt).ok})

\* round(val * 0.45359237, 2), in hundredths: val * 45359237 / 10^(d + 6),
\* with the product taken in two parts to stay within 32 bits
_convert_lb_to_kg(val) ==
  LET A == val.n * 4535
      B == val.n * 9237
      E == Pow10(val.d + 2)
  IN  [n |-> A \div E + RoundDiv((A % E) * 10000 + B, E * 10000), d |-> 2]

Num == Cat(<<Rep(Cls(Digit), 1, 3), Opt(Cat(<<Lit("."), Plus(Cls(Digit))>>))>>)
\* the patterns of _extract_weight: the labelled value, a kg mention, a lb mention
WeightPatterns ==
  <<Cat(<<WordB, Alt(<<Lit("Weight"), Lit("Wt"), Lit("Wt."), Lit("Wt:")>>), Sep,
          Grp(1, Num), Star(Cls(Space)),
          Opt(Grp(2, Alt(<<Lit("kg"), Lit("kgs"), Lit("kilograms"), Lit("lb"), Lit("lbs"), Lit("pounds")>>))),
          WordB>>),
    Cat(<<WordB, Grp(1, Num), Star(Cls(Space)), Grp(2, Alt(<<Lit("kg"), Lit("kgs")>>)), WordB>>),
    Cat(<<WordB, Grp(1, Cat(<<Rep(Cls(Digit), 2, 3), Opt(Cat(<<Lit("."), Plus(Cls(Digit))>>))>>)),
          Star(Cls(Space)), Grp(2, Alt(<<Lit("lb"), Lit("lbs"), Lit("pounds")>>)), WordB>>)>>
\* _extract_weight looking for a lb mention before a kg mention
_extract_weight_lb_first(txt) ==
  LET m == isearch(WeightPatterns[1], txt)
      m2 == isearch(WeightPatterns[2], txt)
      m3 == isearch(WeightPatterns[3], txt)
      labelled(val, unit) ==
        IF unit \in {"lb", "lbs", "pounds"} THEN PyStr(FloatStr(_convert_lb_to_kg(val)) \o " kg")
        ELSE IF unit = "" THEN PyStr(FloatStr(val) \o " kg")
        ELSE PyStr(FloatStr(val) \o " " \o unit)
      kg(a) == IF a.ok THEN PyStr(FloatStr(ToFloat(gtext(a, 1))) \o " kg") ELSE None
      lb(a) == IF a.ok THEN PyStr(FloatStr(_convert_lb_to_kg(ToFloat(gtext(a, 1)))) \o " kg") ELSE kg(m2)
      with(a) == IF a.ok THEN labelled(ToFloat(gtext(a, 1)), lower(strip(gtext(a, 2)))) ELSE lb(m3)
  IN  with(m)
_extract_weight(txt) ==
  LET m == isearch(WeightPatterns[1], txt)
      m2 == isearch(WeightPatterns[2], txt)
      m3 == isearch(WeightPatterns[3], txt)
      labelled(val, unit) ==
        IF unit \in {"lb", "lbs", "pounds"} THEN PyStr(FloatStr(_convert_lb_to_kg(val)) \o " kg")
        ELSE IF unit = "" THEN PyStr(FloatStr(val) \o " kg")
        ELSE PyStr(FloatStr(val) \o " " \o unit)
      lb(a) == IF a.ok THEN PyStr(FloatStr(_convert_lb_to_kg(ToFloat(gtext(a, 1)))) \o " kg") ELSE None
      kg(a) == IF a.ok THEN PyStr(FloatStr(ToFloat(gtext(a, 1))) \o " kg") ELSE lb(m3)
      with(a) == IF a.ok THEN labelled(ToFloat(gtext(a, 1)), lower(strip(gtext(a, 2)))) ELSE kg(m2)
  IN  with(m)

\* the patterns of _extract_bp: labelled S/D, S over D, bare S/D or S:D
BpPatterns ==
  LET D23 == Rep(Cls(Digit), 2, 3)
      Sp == Star(Cls(Space))
  IN  <<Cat(<<WordB, Alt(<<Lit("BP"), Lit("B.P."), Lit("Blood Pressure")>>),
              Star(Cls(Space \cup {":", "-"})), Grp(1, D23), Sp, Lit("/"), Sp, Grp(2, D23), WordB>>),
        Cat(<<WordB, Grp(1, D23), Sp, Lit("over"), Sp, Grp(2, D23), WordB>>),
        Cat(<<WordB, Grp(1, D23), Sp, Cls({"/", ":"}), Sp, Grp(2, D23), WordB>>)>>
_extract_bp(txt) == _extract_vital_regex(txt, BpPatterns)

_extract_height(txt) ==
  LET Sp == Star(Cls(Space))
      patterns == <<
        Cat(<<WordB, Lit("Height"), Star(Cls(Space \cup {":", "-"})), Grp(1, Rep(Cls(Digit), 2, 3)), Sp,
              Opt(Grp(2, Alt(<<Lit("cm"), Lit("cm."), Lit("centimeters")>>))), WordB>>),
        Cat(<<WordB, Grp(1, Rep(Cls(Digit), 1, 2)), Sp, Lit("ft"), Sp,
              Opt(Grp(2, Rep(Cls(Digit), 1, 2))), Sp, Opt(Alt(<<Lit("in"), Lit("inches")>>)), WordB>>),
        Cat(<<WordB, Grp(1, Rep(Cls(Digit), 2, 3)), Sp, Lit("cm"), WordB>>)>>
      ngroups == <<2, 2, 1>>                     \* len(m.groups()) of each pattern
      inches(g2) == IF Truthy(g2) /\ \A j \in 1..Len(g2.v) : At(g2.v, j) \in Digit
                    THEN ToInt(g2.v) ELSE 0
      value(p, m, g2) ==
        IF ngroups[p] >= 2 /\ Truthy(g2) /\ isearch(Lit("cm"), g2.v).ok
        THEN PyStr(gtext(m, 1) \o " cm")
        ELSE IF ngroups[p] >= 2 /\ ~IsNone(g2)
        THEN PyStr(IntStr(RoundDiv((ToInt(gtext(m, 1)) * 12 + inches(g2)) * 254, 100)) \o " cm")
        ELSE group(m, 1)
      of(p, m) == value(p, m, IF ngroups[p] >= 2 THEN group(m, 2) ELSE None)
      pick(hit) == IF hit = {} THEN None ELSE of(SetMin(hit), isearch(patterns[SetMin(hit)], txt))
  IN  pick({k \in 1..Len(patterns) : isearch(patterns[k], txt).ok})

\* round((val - 32) * (5.0/9.0), 1), in tenths
FtoC(val) == [n |-> RoundDiv((val.n - 32 * Pow10(val.d)) * 50, 9 * Pow10(val.d)), d |-> 1]
Greater(val, k) == val.n > k * Pow10(val.d)
_extract_temperature(txt) ==
  LET Sp == Star(Cls(Space))
      Dec == Cat(<<Rep(Cls(Digit), 2, 3), Opt(Cat(<<Lit("."), Plus(Cls(Digit))>>))>>)
      m == isearch(Cat(<<WordB, Lit("Temp"), Opt(Lit("erature")), Star(Cls(Space \cup {":", "-"})),
                         Grp(1, Dec), Sp,
                         Opt(Grp(2, Alt(<<Lit("C"), Lit("F"), Lit("c"), Lit("f"), Lit("deg"), Lit("~")>>))),
                         WordB>>), txt)
      m2 == isearch(Cat(<<WordB, Grp(1, Dec), Sp, Opt(Alt(<<Lit("~"), Lit("deg")>>)), Sp,
                          Grp(2, Alt(<<Lit("C"), Lit("F")>>)), WordB>>), txt)
      labelled(val, unit) ==
        IF (unit = "F" \/ (unit = "C" /\ Greater(val, 60))) /\ (unit = "F" \/ Greater(val, 60))
        THEN PyStr(FloatStr(FtoC(val)) \o " C")
        ELSE PyStr(FloatStr(val) \o " " \o unit)
      bare(val2, unit) == IF unit = "F" THEN PyStr(FloatStr(FtoC(val2)) \o " C")
                          ELSE PyStr(FloatStr(val2) \o " C")
      second(a) == IF a.ok THEN bare(ToFloat(gtext(a, 1)), upper(gtext(a, 2))) ELSE None
      with(a) == IF a.ok THEN labelled(ToFloat(gtext(a, 1)), upper(Or(group(a, 2), PyStr("C")).v))
                 ELSE second(m2)
  IN  with(m)

_extract_age(txt) ==
  LET m == isearch(Cat(<<WordB, Lit("Age"), Star(Cls(Space \cup {":", "-"})),
                         Grp(1, Rep(Cls(Digit), 1, 3)), WordB>>), txt)
      m2 == isearch(Cat(<<WordB, Grp(1, Rep(Cls(Digit), 1, 3)), Star(Cls(Space)),
                          Alt(<<Lit("years"), Lit("yrs"), Lit("y/o"), Lit("yo")>>), WordB>>), txt)
      of(a, else) == IF a.ok THEN PyStr(IntStr(ToInt(gtext(a, 1)))) ELSE else
  IN  of(m, of(m2, None))

_extract_sex(txt) ==
  LET m == search(Cat(<<WordB, Grp(1, Alt(<<Lit("Sex"), Lit("Gender")>>)), Star(Cls(Space \cup {":"})),
                        Grp(2, Alt(<<Cls({"M", "F", "m", "f"}), Lit("Male"), Lit("Female"),
                                     Lit("male"), Lit("female")>>)), WordB>>), txt)
      m2 == isearch(Cat(<<WordB, Grp(1, Alt(<<Lit("Male"), Lit("Female"), Lit("M"), Lit("F")>>)), WordB>>), txt)
      second(a) == IF a.ok
                   THEN (IF startswith(lower(strip(gtext(a, 1))), "m") THEN PyStr("male") ELSE PyStr("female"))
                   ELSE None
      labelled(a, val) == IF a.ok /\ startswith(val, "m") THEN PyStr("male")
                          ELSE IF a.ok /\ startswith(val, "f") THEN PyStr("female")
                          ELSE second(m2)
      with(a) == labelled(a, lower(strip(gtext(a, 2))))
  IN  with(m)

\* the elements of seq at the indexes in idx, in order
Sub(seq, idx) ==
  [k \in 1..Cardinality(idx) |-> seq[CHOOSE p \in idx : Cardinality({q \in idx : q < p}) = k - 1]]
\* sep.join(seq), by halves
RECURSIVE Join(_, _)
Join(seq, sep) ==
  IF Len(seq) = 0 THEN ""
  ELSE IF Len(seq) = 1 THEN seq[1]
  ELSE Join(SubSeq(seq, 1, Len(seq) \div 2), sep) \o sep \o Join(SubSeq(seq, Len(seq) \div 2 + 1, Len(seq)), sep)
\* re.finditer: the successive non-overlapping matches from position from on
RECURSIVE FindAll(_, _, _, _)
FindAll(re, s, from, fl) ==
  LET after(m) == IF ~m.ok THEN <<>>
                  ELSE <<m>> \o FindAll(re, s, IF m.e > m.b THEN m.e ELSE m.e + 1, fl)
  IN  after(SearchIn(re, s, from, Len(s) + 1, fl))
\* re.split(re, s) for a pattern without groups: the text between the matches
re_split(re, s) ==
  LET between(ms) ==
        [k \in 1..(Len(ms) + 1) |->
           SubSeq(s, IF k = 1 THEN 1 ELSE ms[k - 1].e, IF k = Len(ms) + 1 THEN Len(s) ELSE ms[k].b - 1)]
  IN  between(FindAll(re, s, 1, Flags(FALSE, FALSE)))

\* The NER model (spaCy's en_core_web_sm) is outside the repository: it is
\* taken to be a fixed function of the text that tags the names it knows.
Model == [t |-> "model", v |-> "en_core_web_sm"]
KnownPersons == {"Jane Doe", "John Smith", "Cher"}
\* doc.sents: the sentences of the text are taken to be its non-blank lines
Sents(txt) == StripLines(split_nl(txt))
\* the first of the sentences that contains one of the keys, stripped
FirstWith(sents, keys) ==
  LET has(x) == \E k \in 1..Len(keys) : Contains(lower(x), keys[k])
      hit == SelectSeq(sents, has)
  IN  IF Len(hit) > 0 THEN PyStr(strip(hit[1])) ELSE None
\* _load_spacy: loads says whether spacy.load succeeds on this attempt; the
\* result is the new value of _NLP, which is also what is returned
_load_spacy(loads) == IF ~IsNone(_NLP) THEN _NLP ELSE IF loads THEN Model ELSE None
\* an NER name strategy that takes the first PERSON entity of 2 to 6 words
_extract_name_first(txt, nlp) ==
  LET at(n) == SetMin({i \in 1..(Len(txt) - Len(n) + 1) : SubSeq(txt, i, i + Len(n) - 1) = n})
      ok == {n \in KnownPersons : Contains(txt, n) /\ Len(words(strip(n))) > 1 /\ Len(words(strip(n))) <= 6}
  IN  IF IsNone(nlp) \/ ok = {} THEN None
      ELSE PyStr(strip(CHOOSE n \in ok : \A o \in ok : at(n) <= at(o)))
_extract_name_via_spacy(txt, nlp) ==
  LET ents == {n \in KnownPersons : Contains(txt, n)}             \* PERSON entities of nlp(txt)
      at(n) == SetMin({i \in 1..(Len(txt) - Len(n) + 1) : SubSeq(txt, i, i + Len(n) - 1) = n})
      ok == {n \in ents : Len(words(strip(n))) > 1 /\ Len(words(strip(n))) <= 6}
  IN  IF IsNone(nlp) \/ ok = {} THEN None
      ELSE PyStr(strip(CHOOSE n \in ok : \A o \in ok \ {n} :
                         Len(n) > Len(o) \/ (Len(n) = Len(o) /\ at(n) < at(o))))

\* [p.strip(cs) for p in parts], and the non-empty members of a list
StripEach(parts, cs) == [k \in 1..Len(parts) |-> strip_chars(parts[k], cs)]
NonEmpty(s) == s # ""
\* a dedupe that compares the items as they are spelled
NormalizedExact(meds) == Sub(meds, {k \in 1..Len(meds) : \A j \in 1..(k - 1) : meds[j] # meds[k]})
\* the loop that normalizes and dedupes meds, and the final join
Normalized(meds) ==
  Sub(meds, {k \in 1..Len(meds) : \A j \in 1..(k - 1) : lower(meds[j]) # lower(meds[k])})
CleanEach(meds) == [k \in 1..Len(meds) |-> strip(Rewrite("spaces", meds[k]))]
Joined(normalized) == IF Len(normalized) > 0 THEN PyStr(Join(normalized, "; ")) ELSE None
\* without a labelled block: the dosage mentions of the text, else the lines
\* that look like a prescription
Scanned(found, lines) ==
  LET starts(ln) == startswith(lower(ln), "rx") \/ startswith(lower(ln), "prescription")
                    \/ search(Cat(<<Plus(Cls(Digit)), Star(Cls(Space)),
                                    Alt(<<Lit("mg"), Lit("ml"), Lit("g")>>)>>), ln).ok
  IN  IF Len(found) > 0 THEN [k \in 1..Len(found) |-> gtext(found[k], 1)]
      ELSE SelectSeq(lines, starts)
\* the bullet characters that strip() also drops lie outside the modelled alphabet
BlockOrScan(block, lines, txt) ==
  IF Truthy(block)
  THEN SelectSeq(StripEach(re_split(Alt(<<Lit("\n"), Lit(";"),
                                          Cat(<<Lit(","), Star(Cls(Space)), Ahead(Cls(Alpha))>>)>>), block.v),
                           {" "}), NonEmpty)
  ELSE Scanned(FindAll(Cat(<<Grp(1, Cat(<<Cls(Alpha), Plus(Cls(Alnum \cup {"-", "(", ")"})), Plus(Cls(Space)),
                                          Plus(Cls(Digit)), Star(Cls(Space)),
                                          Alt(<<Lit("mg"), Lit("g"), Lit("ml"), Lit("mcg"), Lit("IU")>>)>>))>>),
                           txt, 1, Flags(TRUE, FALSE)), lines)
\* meds as the dedupe loop sees them, each with its whitespace collapsed
MedItems(lines, txt) ==
  CleanEach(BlockOrScan(
    _find_label_value(lines, <<"Medications", "Medication", "Rx", "Prescription", "Treatment Plan">>),
    lines, txt))
_extract_medications(lines, txt) == Joined(Normalized(MedItems(lines, txt)))

med_terms == <<"fever", "infection", "pain", "fracture", "hypertension", "diabetes", "cough", "pneumonia", "asthma">>
\* parse_fields_enhanced(text): nlp is what _load_spacy returns if it is called
parse_fields_enhanced(txt0, nlp) ==
  LET txt == Or(txt0, PyStr("")).v
      lines == _lines(txt)
      name_label == _find_label_value(lines, <<"Full Name", "Patient Name", "Name">>)
      diag == _find_label_value(lines, <<"Diagnosis", "Impression", "Assessment", "Dx">>)
      medical(ln) == (\E k \in 1..Len(med_terms) : Contains(lower(ln), med_terms[k])) /\ Len(words(ln)) >= 3
      some == SelectSeq(lines, medical)
  IN  [patient_name |-> IF Truthy(name_label) THEN PyStr(strip(split_nl(name_label.v)[1]))
                        ELSE _extract_name_via_spacy(txt, nlp),
       patient_id |-> _extract_patient_id(lines),
       age |-> _extract_age(txt),
       sex |-> _extract_sex(txt),
       diagnosis |-> IF Truthy(diag) THEN PyStr(strip(split_nl(diag.v)[1]))
                     ELSE IF Len(some) > 0 THEN PyStr(strip(some[1])) ELSE None,
       medications |-> _extract_medications(lines, txt),
       blood_pressure |-> _extract_bp(txt),
       weight |-> _extract_weight(txt),
       height |-> _extract_height(txt),
       temperature |-> _extract_temperature(txt),
       raw_text |-> PyStr(txt)]
\* whether parse_fields_enhanced(text) calls _load_spacy (no labelled name)
CallsLoad(txt0) == ~Truthy(_find_label_value(_lines(Or(txt0, PyStr("")).v), <<"Full Name", "Patient Name", "Name">>))

(***************************************************************************)
(* parse_medical_record.py: the quick regex-only parser                    *)
(***************************************************************************)
AnyCh == NotCls({})                                 \* [\s\S]
LabelSep == Star(Cls(Space \cup {":", "-"}))        \* [:\s\-]*
_extract_blood_pressure(txt) ==
  LET D23 == Rep(Cls(Digit), 2, 3)
      Sp == Star(Cls(Space))
      mmHg == Opt(Cat(<<Sp, Lit("mmHg")>>))
      pair == Grp(1, Cat(<<D23, Sp, Lit("/"), Sp, D23>>))
      patterns == <<
        Cat(<<WordB, Alt(<<Lit("BP"), Lit("B.P."), Lit("Blood Pressure"), Lit("Blood-Pressure")>>),
              LabelSep, pair, mmHg, WordB>>),
        Cat(<<WordB, Alt(<<Lit("BP"), Lit("B.P."), Lit("Blood Pressure")>>), LabelSep,
              Grp(1, D23), Sp, Alt(<<Lit("over"), Lit("/")>>), Sp, Grp(2, D23), mmHg, WordB>>),
        Cat(<<WordB, Grp(1, D23), Sp, Lit("over"), Sp, Grp(2, D23), Sp, Opt(Lit("mmHg")), WordB>>),
        Cat(<<WordB, pair, Sp, Opt(Lit("mmHg")), WordB>>)>>
      hit == {k \in 1..Len(patterns) : isearch(patterns[k], txt).ok}
      m == isearch(patterns[SetMin(hit)], txt)
  IN  IF hit = {} THEN None
      ELSE IF Truthy(group(m, 2))                    \* m.lastindex >= 2 and m.group(2)
      THEN PyStr(Rewrite("nospace", gtext(m, 1)) \o "/" \o Rewrite("nospace", gtext(m, 2)))
      ELSE PyStr(Rewrite("nospace", gtext(m, 1)))

quick_extract_age(txt) ==
  LET D13 == Rep(Cls(Digit), 1, 3)
      patterns == <<
        Cat(<<WordB, Lit("Age"), Star(Cls(Space \cup {":"})), Grp(1, D13), WordB>>),
        Cat(<<WordB, Grp(1, D13), Star(Cls(Space)),
              Alt(<<Lit("years"), Lit("yrs"), Lit("y/o"), Lit("yo"), Lit("years old")>>), WordB>>),
        Cat(<<WordB, Grp(1, D13), Opt(Cls({"-", " "})), Lit("y"), WordB>>)>>
      hit == {k \in 1..Len(patterns) : isearch(patterns[k], txt).ok}
  IN  IF hit = {} THEN None
      ELSE PyInt(ToInt(gtext(isearch(patterns[SetMin(hit)], txt), 1)))

quick_extract_sex(txt) ==
  LET m == search(Cat(<<WordB, Grp(1, Alt(<<Lit("Sex"), Lit("Gender")>>)), Star(Cls(Space \cup {":"})),
                        Grp(2, Alt(<<Cls({"M", "F", "m", "f"}), Lit("Male"), Lit("Female"),
                                     Lit("male"), Lit("female")>>)), WordB>>), txt)
      m2 == search(Cat(<<WordB, Grp(1, Alt(<<Lit("Male"), Lit("Female"), Lit("M"), Lit("F")>>)), WordB>>), txt)
      raw == lower(strip(IF m.ok THEN gtext(m, 2) ELSE IF m2.ok THEN gtext(m2, 1) ELSE ""))
  IN  IF raw \in {"m", "male"} THEN PyStr("male")
      ELSE IF raw \in {"f", "female"} THEN PyStr("female")
      ELSE None

quick_extract_weight(txt) ==
  LET N1 == Cat(<<Rep(Cls(Digit), 1, 3), Opt(Cat(<<Lit("."), Cls(Digit)>>))>>)
      Units == Alt(<<Lit("kg"), Lit("kgs"), Lit("kilograms"), Lit("lb"), Lit("lbs"), Lit("pounds")>>)
      m == isearch(Cat(<<WordB, Alt(<<Lit("Weight"), Lit("Wt"), Lit("Wt."), Lit("Wt:")>>), LabelSep,
                         Grp(1, N1), Star(Cls(Space)), Opt(Grp(2, Units)), WordB>>), txt)
      m2 == isearch(Cat(<<WordB, Grp(1, N1), Star(Cls(Space)), Grp(2, Units), WordB>>), txt)
      num == gtext(m, 1)
      unit0 == lower(strip(gtext(m, 2)))
      unit == IF unit0 # "" THEN unit0 ELSE IF ~Greater(ToFloat(num), 200) /\ ToFloat(num) # ToFloat("200") THEN "kg" ELSE ""
  IN  IF m.ok THEN PyStr(strip(num \o " " \o unit))
      ELSE IF m2.ok THEN PyStr(lower(gtext(m2, 1) \o " " \o gtext(m2, 2)))
      ELSE None

parse_medical_record_quick(txt) ==
  LET m == search(Cat(<<WordB, Lit("Name"), Plus(Cls(Space \cup {":"})),
                        Grp(1, Cat(<<Cls(Upper), Rep(Cls(Alpha \cup {" ", ",", ".", "'", "-"}), 1, 80)>>))>>), txt)
      mdiag == isearch(Cat(<<Alt(<<Lit("Diagnosis"), Lit("Dx"), Lit("Impression")>>),
                             Star(Cls(Space \cup {":"})), Grp(1, Rep(AnyCh, 1, 200))>>), txt)
      mpres == isearch(Cat(<<Alt(<<Lit("Rx"), Lit("Prescription")>>),
                             Star(Cls(Space \cup {":"})), Grp(1, Rep(AnyCh, 1, 200))>>), txt)
  IN  [name |-> IF m.ok THEN PyStr(strip(gtext(m, 1))) ELSE None,
       age |-> quick_extract_age(txt),
       sex |-> quick_extract_sex(txt),
       diagnosis |-> IF mdiag.ok THEN PyStr(strip(split_nl(gtext(mdiag, 1))[1])) ELSE None,
       blood_pressure |-> _extract_blood_pressure(txt),
       weight |-> quick_extract_weight(txt),
       prescription |-> IF mpres.ok THEN PyStr(strip(split_nl(gtext(mpres, 1))[1])) ELSE None]

(***************************************************************************)
(* parse_medical_record.py: the parser that needs the NER model            *)
(***************************************************************************)
\* _get_nlp returning None on a failed load, as _load_spacy does
_get_nlp_quiet(loads) == IF ~IsNone(_NLP) THEN _NLP ELSE IF loads THEN Model ELSE None
\* _get_nlp keeps its own _NLP; on a failed load it raises RuntimeError
_get_nlp(loads) ==
  IF ~IsNone(_NLP) THEN _NLP ELSE IF loads THEN Model ELSE [t |-> "raise", v |-> "RuntimeError"]
\* parse_medical_record(text): nlp is what _get_nlp returned or raised
parse_medical_record(txt0, nlp) ==
  LET txt == Rewrite("cr", Or(txt0, PyStr("")).v)
      m == search(Cat(<<WordB, Lit("Name"), Plus(Cls(Space \cup {":"})),
                        Grp(1, Cat(<<Cls(Upper), Rep(Cls(Alpha \cup {" ", ",", ".", "'", "-"}), 1, 80)>>))>>), txt)
      ents == {n \in KnownPersons : Contains(txt, n)}             \* PERSON entities of nlp(txt)
      at(n) == SetMin({i \in 1..(Len(txt) - Len(n) + 1) : SubSeq(txt, i, i + Len(n) - 1) = n})
      mpres == isearch(Cat(<<WordB, Alt(<<Lit("Rx"), Lit("Prescription")>>),
                             Star(Cls(Space \cup {":"})), Grp(1, Rep(AnyCh, 1, 200))>>), txt)
      long(x) == Len(words(x)) >= 3                                \* 3 tokens that are not punctuation
      keyed == FirstWith(Sents(txt), <<"diagnos", "impression", "assessment", "plan", "dx", "finding", "conclusion">>)
      medical == FirstWith(Sents(txt), med_terms)
      some == SelectSeq(Sents(txt), long)
  IN  IF nlp.t = "raise" THEN nlp
      ELSE [name |-> IF m.ok THEN PyStr(strip(gtext(m, 1)))
                     ELSE IF ents = {} THEN None
                     ELSE PyStr(strip(CHOOSE n \in ents : \A o \in ents : at(n) <= at(o))),
            age |-> quick_extract_age(txt),
            sex |-> quick_extract_sex(txt),
            diagnosis |-> IF Truthy(keyed) THEN keyed
                          ELSE IF Truthy(medical) THEN medical
                          ELSE IF Len(some) > 0 THEN PyStr(strip(some[1])) ELSE None,
            blood_pressure |-> _extract_blood_pressure(txt),
            weight |-> quick_extract_weight(txt),
            prescription |-> IF mpres.ok THEN PyStr(strip(split_nl(gtext(mpres, 1))[1]))
                             ELSE FirstWith(Sents(txt), <<"tablet", "tab", "mg", "take", "capsule", "dose",
                                                          "daily", "once", "twice", "bd">>)]

(***************************************************************************)
(* app.py: the line-based extraction and its merge with the quick parser   *)
(***************************************************************************)
normalize_lines(txt) == StripLines(splitlines(txt))

\* every pattern passed has a group, so the value is m.group(1).strip()
extract_field_by_label(lines, label_patterns) ==
  LET hit == {k \in 1..Len(lines) : \E p \in 1..Len(label_patterns) : isearch(label_patterns[p], lines[k]).ok}
      ln == lines[SetMin(hit)]
      pat == label_patterns[SetMin({p \in 1..Len(label_patterns) : isearch(label_patterns[p], ln).ok})]
  IN  IF hit = {} THEN None ELSE PyStr(strip(gtext(isearch(pat, ln), 1)))

find_age(lines) ==
  LET D13 == Rep(Cls(Digit), 1, 3)
      p1 == Cat(<<Lit("Age"), Sep, Grp(1, D13), WordB>>)
      p2 == Cat(<<Grp(1, D13), Star(Cls(Space)), Grp(2, Alt(<<Lit("yrs"), Lit("years"), Lit("yo")>>)), WordB>>)
      hit == {k \in 1..Len(lines) : isearch(p1, lines[k]).ok \/ isearch(p2, lines[k]).ok}
      ln == lines[SetMin(hit)]
  IN  IF hit = {} THEN None
      ELSE IF isearch(p1, ln).ok THEN group(isearch(p1, ln), 1)
      ELSE group(isearch(p2, ln), 1)

find_sex(lines) ==
  LET p == Cat(<<WordB, Grp(1, Alt(<<Lit("Sex"), Lit("Gender")>>)), Sep,
                 Grp(2, Alt(<<Lit("M"), Lit("F"), Lit("Male"), Lit("Female")>>)), WordB>>)
      isM(ln) == ifullmatch(Cat(<<WordB, Lit("M"), WordB>>), ln).ok
      isF(ln) == ifullmatch(Cat(<<WordB, Lit("F"), WordB>>), ln).ok
      hit == {k \in 1..Len(lines) : isearch(p, lines[k]).ok \/ isM(lines[k]) \/ isF(lines[k])}
      ln == lines[SetMin(hit)]
  IN  IF hit = {} THEN None
      ELSE IF isearch(p, ln).ok THEN PyStr(strip(gtext(isearch(p, ln), 2)))
      ELSE IF isM(ln) THEN PyStr("M") ELSE PyStr("F")

find_medications(lines) ==
  LET header(ln) == isearch(Cat(<<Bol, Grp(1, Alt(<<Lit("Medications"), Lit("Medication"), Lit("Rx"), Lit("Drugs")>>)),
                                  WordB, Opt(Cls({":", "-"}))>>), ln).ok
      label(ln) == match(Cat(<<Bol, Cls(Upper), Plus(Cls(Lower)), Star(Cls(Space)), Cls({":", "-"})>>), ln).ok
      heads == {k \in 1..Len(lines) : header(lines[k])}
      \* the loop captures from the first header up to the next line that opens another label
      stop == {k \in 1..Len(lines) : k > SetMin(heads) /\ ~header(lines[k]) /\ label(lines[k])}
      last == IF stop = {} THEN Len(lines) ELSE SetMin(stop) - 1
      colon(ln) == {i \in 1..Len(ln) : At(ln, i) = ":"}
      after(ln) == IF colon(ln) = {} THEN "" ELSE strip(SubSeq(ln, SetMin(colon(ln)) + 1, Len(ln)))
      piece(k) == IF header(lines[k]) THEN after(lines[k]) ELSE strip(lines[k])
      meds == IF heads = {} THEN <<>>
              ELSE Sub([k \in 1..Len(lines) |-> piece(k)], {k \in SetMin(heads)..last : piece(k) # ""})
  IN  IF Len(meds) > 0 THEN PyStr(Join(meds, " ")) ELSE None

\* the label patterns that extract_fields_from_text passes for the name and
\* for the diagnosis
NamePatterns ==
  LET Rest == Cat(<<Grp(1, Star(Dot)), Eol>>)
      Colon == Cat(<<Star(Cls(Space)), Cls({":", "-"}), Star(Cls(Space))>>)
  IN  <<Cat(<<Bol, Alt(<<Lit("Patient Name"), Lit("Name"), Lit("Pt Name"), Lit("Patient")>>), Colon, Rest>>),
        Cat(<<Bol, Lit("Name"), Colon, Rest>>)>>
DiagnosisPatterns ==
  <<Cat(<<Bol, Alt(<<Lit("Diagnosis"), Lit("Dx")>>), Sep, Grp(1, Star(Dot)), Eol>>)>>
\* the fields app.py extracts itself from the normalized lines
OwnFields(lines) ==
  [patient_name |-> Or(extract_field_by_label(lines, NamePatterns),
                       IF Len(lines) > 0 THEN PyStr(lines[1]) ELSE None),
   age |-> find_age(lines),
   sex |-> find_sex(lines),
   diagnosis |-> extract_field_by_label(lines, DiagnosisPatterns),
   medications |-> find_medications(lines)]
\* the merge with the precedence reversed: app.py's own extraction first
MergeOwnFirst(parsed, own, txt) ==
  [patient_name |-> Or(own.patient_name, parsed.name),
   age |-> Or(own.age, parsed.age),
   sex |-> Or(own.sex, parsed.sex),
   diagnosis |-> Or(own.diagnosis, parsed.diagnosis),
   medications |-> Or(own.medications, parsed.prescription),
   blood_pressure |-> parsed.blood_pressure,
   weight |-> parsed.weight,
   raw_text |-> PyStr(txt)]
\* "Merge results, keep existing extraction as fallback"
MergeFields(parsed, own, txt) ==
  [patient_name |-> Or(parsed.name, own.patient_name),
   age |-> Or(parsed.age, own.age),
   sex |-> Or(parsed.sex, own.sex),
   diagnosis |-> Or(parsed.diagnosis, own.diagnosis),
   medications |-> Or(parsed.prescription, own.medications),
   blood_pressure |-> parsed.blood_pressure,
   weight |-> parsed.weight,
   raw_text |-> PyStr(txt)]
extract_fields_from_text(txt) ==
  MergeFields(parse_medical_record_quick(txt), OwnFields(normalize_lines(txt)), txt)

\* what a handler returns: jsonify(body), status
Response(status, body) == [status |-> status, body |-> body]

\* extract_fields_route: a JSON body carries the text; an upload is saved,
\* read by OCR and removed (uploads here are files of an allowed type that
\* OCR reads without error)
extract_fields_route(r) ==
  IF ~Truthy(r.text) THEN Response(400, [success |-> FALSE, error |-> "No text provided"])
  ELSE Response(200, [success |-> TRUE, fields |-> extract_fields_from_text(r.text.v)])

(***************************************************************************)
(* ocr-service.py: the NER-assisted parser, the confidences and the        *)
(* extract-fields endpoint                                                 *)
(***************************************************************************)
Min(a, b) == IF a < b THEN a ELSE b
Max(a, b) == IF a > b THEN a ELSE b
\* the lists of a list of lists, one after the other (list.extend), by halves
RECURSIVE Flatten(_)
Flatten(ls) ==
  IF Len(ls) = 0 THEN <<>>
  ELSE IF Len(ls) = 1 THEN ls[1]
  ELSE Flatten(SubSeq(ls, 1, Len(ls) \div 2)) \o Flatten(SubSeq(ls, Len(ls) \div 2 + 1, Len(ls)))
\* the drug-and-dose token, compiled with re.IGNORECASE
med_pattern ==
  Grp(1, Cat(<<Cls(Upper), Rep(Cls(Alpha \cup {"-"}), 2, -1),
               Opt(Cat(<<Plus(Cls(Space)), Cls(Upper), Star(Cls(Alpha \cup {"-"}))>>)), Plus(Cls(Space)),
               Plus(Cls(Digit)), Star(Cls(Space)),
               Alt(<<Lit("mg"), Lit("g"), Lit("ml"), Lit("mcg"), Lit("IU")>>), WordB>>))
\* the medications of parse_fields_with_spacy before the dedupe: the items of
\* the labelled block, else of the sentences that mention a dose or a
\* keyword; of each the drug-and-dose token, cut to 6 words
SpacyItems(raw_text, sents) ==
  LET parts(x) == SelectSeq(StripEach(re_split(Cat(<<Lit(","), Star(Cls(Space)), Ahead(Cls(Alpha))>>), x),
                                      Space), NonEmpty)
      keyword(x) == \E w \in {"tablet", "capsule", "mg", "dose", "medicine", "take", "tab",
                               "once daily", "twice daily"} : Contains(lower(x), w)
      each(lines) == Flatten([k \in 1..Len(lines) |-> parts(lines[k])])
      inblock(m_block) ==
        IF m_block.ok
        THEN each(StripEach(re_split(Alt(<<Lit("\n"), Lit(";"), Lit("\\u2022")>>), gtext(m_block, 1)),
                            {" ", "\t"}))
        ELSE <<>>
      mention(text, m2) == IF m2.ok THEN <<text>> ELSE IF keyword(text) THEN parts(text) ELSE <<>>
      insents == Flatten([k \in 1..Len(sents) |->
                            mention(strip(sents[k]), isearch(med_pattern, strip(sents[k])))])
      pick(found) == IF Len(found) > 0 THEN found ELSE insents
      token(x, m2) == IF m2.ok THEN strip(gtext(m2, 1)) ELSE x
      short(ws) == Join(SubSeq(ws, 1, Min(6, Len(ws))), " ")
      tokens(meds) == [k \in 1..Len(meds) |-> short(words(token(meds[k], isearch(med_pattern, meds[k]))))]
  IN  tokens(CleanEach(pick(inblock(
        SearchIn(Cat(<<Alt(<<Lit("Medications"), Lit("Medication"), Lit("Prescription"),
                             Lit("Treatment Plan"), Lit("Rx")>>),
                       Star(Cls(Space)), Cls({":", "-"}), Star(Cls(Space)), Grp(1, Lazy(Plus(Dot))),
                       Alt(<<Cat(<<Lit("\n"), Star(Cls(Space)), Lit("\n")>>), Eol>>)>>),
                 raw_text, 1, Len(raw_text) + 1, Flags(TRUE, TRUE))))))
\* str.capitalize()
capitalize(x) == upper(SubSeq(x, 1, 1)) \o lower(SubSeq(x, 2, Len(x)))
\* parse_fields_with_spacy(raw_text), with the model that ocr-service.py loads
\* when it is imported
parse_fields_with_spacy(raw_text) ==
  LET Sp == Star(Cls(Space))
      candidate(m_label) == IF m_label.ok THEN strip(split_nl(gtext(m_label, 1))[1]) ELSE ""
      at(n) == SetMin({i \in 1..(Len(raw_text) - Len(n) + 1) : SubSeq(raw_text, i, i + Len(n) - 1) = n})
      person(ok) == IF ok = {} THEN None ELSE PyStr(strip(CHOOSE n \in ok : \A o \in ok : at(n) <= at(o)))
      name(c, ent) == IF Len(c) > 1 /\ Len(words(c)) <= 6 THEN PyStr(c) ELSE ent
      age(age_match) == IF age_match.ok THEN PyInt(ToInt(gtext(age_match, 1))) ELSE None
      sex(sex_match) == IF sex_match.ok THEN PyStr(capitalize(gtext(sex_match, 1))) ELSE None
      keyed(x) == Contains(lower(x), "diagnosis") \/ Contains(lower(x), "assessment")
      text(g) == IF g # "" THEN PyStr(g) ELSE None
      block(m) == IF m.ok THEN text(strip(gtext(m, 1))) ELSE None
      diagnosis(found, m) == IF Len(found) > 0 THEN PyStr(strip(found[Len(found)])) ELSE block(m)
      fields(sents) ==
        [patient_name |->
           name(candidate(isearch(Cat(<<Alt(<<Lit("Full Name"), Lit("Patient Name"), Lit("Patient"),
                                              Lit("Name")>>),
                                        Sp, Cls({":", "-"}), Sp, Grp(1, Plus(Dot))>>), raw_text)),
                person({n \in KnownPersons : /\ Contains(raw_text, n)
                                             /\ Len(words(strip(n))) > 1 /\ Len(words(strip(n))) <= 6})),
         age |-> age(isearch(Cat(<<Lit("Age"), Sp, Opt(Cls({":", "-"})), Sp, Grp(1, Plus(Cls(Digit)))>>),
                             raw_text)),
         sex |-> sex(isearch(Cat(<<WordB, Grp(1, Alt(<<Lit("Male"), Lit("Female"), Lit("M"), Lit("F")>>)),
                                   WordB>>), raw_text)),
         diagnosis |->
           diagnosis(SelectSeq(sents, keyed),
                     SearchIn(Cat(<<Lit("Diagnosis"), Sp, Cls({":", "-"}), Sp, Grp(1, Lazy(Plus(Dot))),
                                    Alt(<<Cat(<<Lit("\n"), Sp, Lit("\n")>>), Eol>>)>>),
                              raw_text, 1, Len(raw_text) + 1, Flags(TRUE, TRUE))),
         medications |-> Joined(Normalized(SpacyItems(raw_text, sents))),
         raw_text |-> PyStr(raw_text)]
  IN  fields(Sents(raw_text))

RECURSIVE SumConf(_)
SumConf(ts) ==
  IF Len(ts) = 0 THEN 0
  ELSE IF Len(ts) = 1 THEN ts[1][2]
  ELSE SumConf(SubSeq(ts, 1, Len(ts) \div 2)) + SumConf(SubSeq(ts, Len(ts) \div 2 + 1, Len(ts)))
\* int(statistics.mean(confs)) if confs else dflt
MeanOr(ts, dflt) == IF Len(ts) > 0 THEN SumConf(ts) \div Len(ts) ELSE dflt
\* data: the words of pytesseract.image_to_data with their conf (-1: no conf)
compute_confidences(data) ==
  LET good(d) == d[1] # "" /\ d[2] >= 0
      toks == SelectSeq(data, good)
  IN  [avg |-> MeanOr(toks, 0), tokens |-> toks]

\* str(field_value) of a value that is not None
Str(x) == IF x.t = "int" THEN IntStr(x.v) ELSE x.v
\* estimate_field_confidence without the upper clamp
estimate_field_confidence_unclamped(field_value, token_conf, avg_conf) ==
  LET in(d) == Contains(lower(Str(field_value)), lower(d[1]))
  IN  IF ~Truthy(field_value) THEN 20
      ELSE Max(30, (MeanOr(SelectSeq(token_conf, in), avg_conf) * 8 + 180) \div 10)
\* int(avg_match * 0.8 + 90 * 0.2) is (8 * avg_match + 180) \div 10
estimate_field_confidence(field_value, token_conf, avg_conf) ==
  LET in(d) == Contains(lower(Str(field_value)), lower(d[1]))
      matches == SelectSeq(token_conf, in)
      avg_match == MeanOr(matches, avg_conf)
  IN  IF ~Truthy(field_value) THEN 20
      ELSE Max(30, Min(95, (avg_match * 8 + 180) \div 10))

ScoredFields == {"patient_name", "patient_id", "age", "sex", "diagnosis", "medications",
                 "blood_pressure", "weight", "height", "temperature"}
LowNote == "Low overall OCR confidence; consider retaking image with better lighting/contrast"
\* the confidence map and the notes, and the body of the response
Confidence(fields, c) ==
  [f \in ScoredFields \cup {"overall"} |->
     IF f = "overall" THEN c.avg ELSE estimate_field_confidence(Get(fields, f), c.tokens, c.avg)]
\* the notes with the advisory at 50 as well
NotesUpTo50(confidence) == IF confidence["overall"] <= 50 THEN <<LowNote>> ELSE <<>>
Notes(confidence) == IF confidence["overall"] < 50 THEN <<LowNote>> ELSE <<>>
Body(fields, confidence, raw_text) ==
  [success |-> TRUE, fields |-> fields, confidence |-> confidence, notes |-> Notes(confidence),
   raw_text |-> raw_text]
Scored(fields, c, raw_text) == Body(fields, Confidence(fields, c), raw_text)
\* extract_fields: enhanced tells whether parse_enhanced could be imported
\* when the service started, nlp is what _load_spacy returns if the parser
\* calls it
extract_fields(r, nlp, enhanced) ==
  IF r.kind # "file" THEN Response(400, [success |-> FALSE, error |-> "No file uploaded"])
  ELSE Response(200, Scored(IF enhanced THEN parse_fields_enhanced(r.text, nlp)
                            ELSE parse_fields_with_spacy(r.text.v),
                            compute_confidences(r.data), r.text))

(***************************************************************************)
(* The extractors called on a text                                         *)
(***************************************************************************)
Glue(P, N, U) == {p \o n \o u : p \in P, n \in N, u \in U}
SampleDoc ==
  "Name: Jane Doe\nAge: 30\nPID: PID-12345\nBP: 120/80 mmHg\nWeight: 68 kg\nDiagnosis: Mild infection\nRx: Amoxicillin 500mg TDS"
LabelledLines == {"Name: Jane Doe", "Age: 30", "Diagnosis: Mild infection", "Rx: Amoxicillin 500mg TDS"}
LabelledDocs == LabelledLines \cup {a \o "\n" \o b : a, b \in LabelledLines}
TempLabels == {"Temp: ", "Temperature "}
TempNums == {"37", "98.6", "60", "65", "101"}
\* the sample document, documents of one or two labelled lines, documents
\* with names and empty labels, and weight, height, temperature and
\* patient-ID mentions in every spelling of the unit
Corpus ==
  {"", SampleDoc} \cup LabelledDocs
  \cup {"Jane Doe", "Cher", "Jane Doe and John Smith", "Ward 7\nJane Doe", "Name: \nJane Doe", "Dx: ", "Rx:"}
  \cup {"Rx: Amoxicillin 500mg, Ibuprofen 200mg, amoxicillin 500mg", "Rx: Zinc 5 g; ZINC 5 g",
        "take Zinc 5 g, zinc 5 g"}
  \cup {"ABCDEF12 ID: 12", "987654 HNo: 1", "HNo: 1 AB", "PID-123"}
  \cup {"150 lbs then 70 kg", "70 kg Weight: 68", "Weight: 150 lbs", "5 lbs"}
  \cup {"Rx: Amoxicillin 500mg one tablet by mouth twice daily", "Rx: one two three four five six seven"}
  \cup {"Rx: Aspirin 100mg, ibuprofen 200mg", "Rx: Zinc 5 g, 2 tabs"}
  \cup {"no diagnosis yet\nassessment pending", "Impression: flu"}
  \cup Glue({"Sex: ", "Gender - ", "sex ", "Age: ", "Age - ", ""}, {"M", "f", "male", "FEMALE", "0", "34"}, {""})
  \cup Glue({"Weight: ", "Wt ", ""}, {"68", "150", "250", "70.5"},
            {"", " kg", " kgs", " kilograms", " lb", "lbs", " pounds"})
  \cup Glue({"Height: ", ""}, {"170", "5", "99"}, {"", " cm", "cm", " centimeters", " ft", " ft 7 in"})
  \cup Glue(TempLabels \cup {""}, TempNums, {"", " C", " F", "f", " deg", "~", " ~C"})
  \cup Glue({"PID: ", "Patient ID: ", "MRN ", "ID: ", ""},
            {"PID-12345", "PID-12-34", "12345", "AB-12", "12", "ABCDEF12", "pid 123"}, {""})

TextCall(t) == [kind |-> "text", text |-> PyStr(t), data |-> <<>>]
InitExtract ==
  /\ req \in {TextCall(t) : t \in Corpus}
  /\ pc = "call"
  /\ ret = None
  /\ _NLP = None
  /\ first = <<>>
  /\ db = <<>>
  /\ issued = {}

Returns(name, value) ==
  /\ pc = "call"
  /\ pc' = name
  /\ ret' = value
  /\ UNCHANGED <<req, first, db, issued>>

CallWeight == Returns("_extract_weight", _extract_weight(req.text.v)) /\ UNCHANGED _NLP
CallQuickWeight == Returns("quick_extract_weight", quick_extract_weight(req.text.v)) /\ UNCHANGED _NLP
CallHeight == Returns("_extract_height", _extract_height(req.text.v)) /\ UNCHANGED _NLP
CallTemperature == Returns("_extract_temperature", _extract_temperature(req.text.v)) /\ UNCHANGED _NLP
CallPatientId == Returns("_extract_patient_id", _extract_patient_id(_lines(req.text.v))) /\ UNCHANGED _NLP
\* parse_medical_record starts with _get_nlp(); _NLP is here the handle that
\* parse_medical_record.py keeps
CallMedicalRecord ==
  \E loads \in BOOLEAN :
    /\ _NLP' = IF loads THEN _get_nlp(loads) ELSE None
    /\ Returns("parse_medical_record", parse_medical_record(req.text, _get_nlp(loads)))
CallMedicalRecordQuick ==
  Returns("parse_medical_record_quick", parse_medical_record_quick(req.text.v)) /\ UNCHANGED _NLP
CallLines == Returns("_lines", _lines(req.text.v)) /\ UNCHANGED _NLP
CallFromText ==
  Returns("extract_fields_from_text", extract_fields_from_text(req.text.v)) /\ UNCHANGED _NLP
\* ocr-service.py holds a loaded model from its import on
CallWithSpacy == Returns("parse_fields_with_spacy", parse_fields_with_spacy(req.text.v)) /\ UNCHANGED _NLP
\* parse_fields_enhanced loads the NER model when the text has no labelled name
CallParse ==
  \E loads \in BOOLEAN :
    /\ _NLP' = IF CallsLoad(req.text) THEN _load_spacy(loads) ELSE _NLP
    /\ Returns("parse_fields_enhanced", parse_fields_enhanced(req.text, _NLP'))

NextExtract ==
  \/ CallWeight
  \/ CallQuickWeight
  \/ CallHeight
  \/ CallTemperature
  \/ CallPatientId
  \/ CallParse
  \/ CallMedicalRecord
  \/ CallMedicalRecordQuick
  \/ CallWithSpacy
  \/ CallLines
  \/ CallFromText
SpecExtract == InitExtract /\ [][NextExtract]_vars

(***************************************************************************)
(* Claims about the extractors                                             *)
(***************************************************************************)
\* the texts that follow label on a line of doc that opens with it
LineValues(doc, label) ==
  {SubSeq(ln, Len(label) + 3, Len(ln)) :
     ln \in {l \in {split_nl(doc)[k] : k \in 1..Len(split_nl(doc))} : startswith(l, label \o ": ")}}
\* "<number> unit": digits, optionally a decimal part, one space, the unit
IsQuantity(x, unit) ==
  fullmatch(Cat(<<Opt(Lit("-")), Plus(Cls(Digit)), Opt(Cat(<<Lit("."), Plus(Cls(Digit))>>)),
                  Lit(" " \o unit)>>), x).ok

\* C1: parse_fields_enhanced on the seven-line sample document yields
\* patient_name 'Jane Doe', patient_id 'PID-12345', age '30', blood_pressure
\* '120/80', weight '68.0 kg', diagnosis 'Mild infection' and medications
\* containing 'Amoxicillin 500mg TDS'; and for a document with one labelled
\* field per line, each label-extracted field is exactly the text that
\* follows its label on that line.
C1_LabelledDocument ==
  pc = "parse_fields_enhanced" =>
    /\ (req.text.v = SampleDoc =>
          /\ ret.patient_name = PyStr("Jane Doe")
          /\ ret.patient_id = PyStr("PID-12345")
          /\ ret.age = PyStr("30")
          /\ ret.blood_pressure = PyStr("120/80")
          /\ ret.weight = PyStr("68.0 kg")
          /\ ret.diagnosis = PyStr("Mild infection")
          /\ Contains(ret.medications.v, "Amoxicillin 500mg TDS"))
    /\ (req.text.v \in LabelledDocs \cup {SampleDoc} =>
          /\ \A v \in LineValues(req.text.v, "Name") : ret.patient_name = PyStr(v)
          /\ \A v \in LineValues(req.text.v, "Diagnosis") : ret.diagnosis = PyStr(v)
          /\ \A v \in LineValues(req.text.v, "Rx") : ret.medications = PyStr(v))

\* C2: every non-null weight, from the enhanced extractor or from the quick
\* regex strategy, has the form '<number> kg'.
C2_WeightAlwaysKg ==
  (pc \in {"_extract_weight", "quick_extract_weight"} /\ ~IsNone(ret)) => IsQuantity(ret.v, "kg")

\* C22: the weight comes from the first form found, in the order labelled
\* value, kg mention, lb mention; pounds are converted with
\* round(lb * 0.45359237, 2) (150 lbs gives 68.04 kg) and a labelled value
\* without a unit is kilograms, its number unchanged (68 gives 68.0 kg).
C22_WeightForms ==
  (pc = "_extract_weight") =>
    LET labelled == isearch(WeightPatterns[1], req.text.v)
        kg == isearch(WeightPatterns[2], req.text.v)
        lb == isearch(WeightPatterns[3], req.text.v)
        val(a) == ToFloat(gtext(a, 1))
        unit == lower(gtext(labelled, 2))
        Kg(x) == PyStr(FloatStr(x) \o " kg")
    IN  /\ IF labelled.ok
           THEN /\ unit \in {"lb", "lbs", "pounds"} => ret = Kg(_convert_lb_to_kg(val(labelled)))
                /\ unit = "" => ret = Kg(val(labelled))
           ELSE IF kg.ok THEN ret = Kg(val(kg))
           ELSE IF lb.ok THEN ret = Kg(_convert_lb_to_kg(val(lb)))
           ELSE IsNone(ret)
        /\ req.text.v = "Weight: 150 lbs" => ret = PyStr("68.04 kg")
        /\ req.text.v = "Weight: 68" => ret = PyStr("68.0 kg")
\* a kg mention after a lb mention: the kg mention is returned
C22_KgBeforeLb ==
  /\ pc = "_extract_weight"
  /\ req.text.v = "150 lbs then 70 kg"
  /\ ret = PyStr("70.0 kg")

\* C3: every non-null value of the height extractor has the form '<number> cm'.
C3_HeightAlwaysCm ==
  (pc = "_extract_height" /\ ~IsNone(ret)) => IsQuantity(ret.v, "cm")

\* C4: every non-null value of the temperature extractor has the form '<number> C'.
C4_TemperatureAlwaysC ==
  (pc = "_extract_temperature" /\ ~IsNone(ret)) => IsQuantity(ret.v, "C")

\* C5: a returned reading with value v and unit u in {F, C, omitted}, in the
\* labelled or in the bare form, is converted with round((v-32)*5/9, 1) exactly
\* when u = F or v > 60, and is otherwise emitted unchanged as Celsius.
C5_FahrenheitRule ==
  pc = "_extract_temperature" =>
    \A p \in TempLabels \cup {""}, n \in TempNums, u \in {"", " C", " F"} :
      (req.text.v = p \o n \o u /\ ~IsNone(ret)) =>
        ret = PyStr(FloatStr(IF u = " F" \/ Greater(ToFloat(n), 60)
                             THEN FtoC(ToFloat(n)) ELSE ToFloat(n)) \o " C")

\* C6: a non-null patient_id matches ^[A-Z]+-[A-Z0-9]+$ or is a bare uppercase
\* alphanumeric token of length 4 to 20.
C6_PatientIdFormat ==
  (pc = "_extract_patient_id" /\ ~IsNone(ret)) =>
    \/ fullmatch(Cat(<<Plus(Cls(Upper)), Lit("-"), Plus(Cls(Upper \cup Digit))>>), ret.v).ok
    \/ fullmatch(Rep(Cls(Upper \cup Digit), 4, 20), ret.v).ok

\* C20: _extract_patient_id returns the normalized labelled value when there
\* is a label and its value can be normalized; in every other case it returns
\* the first bare token of the lines, normalized, and null only when no line
\* holds one
C20_FallbackChain ==
  pc = "_extract_patient_id" =>
    LET lines == _lines(req.text.v)
        val == _find_label_value(lines, IdLabels)
        labelled == IF Truthy(val) THEN _normalize_patient_id(val.v) ELSE None
        hit == {k \in 1..Len(lines) : search(IdToken, lines[k]).ok}
    IN  ret = IF ~IsNone(labelled) THEN labelled
              ELSE IF hit = {} THEN None
              ELSE _normalize_patient_id(gtext(search(IdToken, lines[SetMin(hit)]), 1))

\* a field set: a record of Python values, and not an exception
IsFieldSet(r) == "t" \notin DOMAIN r /\ \A f \in DOMAIN r : r[f].t \in {"None", "str", "int"}
Items ==
  IF pc = "parse_fields_with_spacy" THEN SpacyItems(req.text.v, Sents(req.text.v))
  ELSE MedItems(_lines(Or(req.text, PyStr("")).v), Or(req.text, PyStr("")).v)
\* the entries of a joined medications value
Kept(v) == IF IsNone(v) THEN <<>> ELSE re_split(Lit("; "), v.v)
\* x is items[First(items, x)] up to case, and no item before it is
First(items, x) == SetMin({k \in 1..Len(items) : lower(items[k]) = lower(x)})
DedupedFrom(items, kept) ==
  /\ \A i, j \in 1..Len(kept) : i < j => lower(kept[i]) # lower(kept[j])
  /\ \A k \in 1..Len(items) : \E i \in 1..Len(kept) : lower(kept[i]) = lower(items[k])
  /\ \A i \in 1..Len(kept) : /\ \E k \in 1..Len(items) : lower(items[k]) = lower(kept[i])
                              /\ kept[i] = items[First(items, kept[i])]
  /\ \A i, j \in 1..Len(kept) : i < j => First(items, kept[i]) < First(items, kept[j])
\* C14: the medications that parse_fields_enhanced and parse_fields_with_spacy
\* return hold no two entries that are equal ignoring case, hold for every
\* extracted item its first occurrence in its own spelling, and hold the
\* entries in the order of these first occurrences
C14_MedicationDedupe ==
  pc \in {"parse_fields_enhanced", "parse_fields_with_spacy"} => DedupedFrom(Items, Kept(ret.medications))
\* a block that lists one drug twice in different case, around another drug
C14_CollapsedToOne ==
  /\ pc = "parse_fields_enhanced"
  /\ req.text.v = "Rx: Amoxicillin 500mg, Ibuprofen 200mg, amoxicillin 500mg"
  /\ ret.medications = PyStr("Amoxicillin 500mg; Ibuprofen 200mg")

\* C23: every entry of the medications that parse_fields_enhanced,
\* parse_fields_with_spacy or extract_fields_from_text returns has at most 6
\* words
C23_SixWordItems ==
  pc \in {"parse_fields_enhanced", "parse_fields_with_spacy", "extract_fields_from_text"} =>
    \A k \in 1..Len(Kept(ret.medications)) : Len(words(Kept(ret.medications)[k])) <= 6

\* C24: in a medication block of one line without a semicolon, where only
\* commas separate the items, every entry after the first begins with a
\* capital letter: a comma before a lower-case letter or a digit does not split
C24_CommaBeforeCapital ==
  (/\ pc \in {"parse_fields_enhanced", "parse_fields_with_spacy"}
   /\ startswith(req.text.v, "Rx: ")
   /\ \A i \in 1..Len(req.text.v) : At(req.text.v, i) \notin {";", "\n"}) =>
    \A k \in 2..Len(Kept(ret.medications)) : At(Kept(ret.medications)[k], 1) \in Upper

\* the values that follow a diagnosis label on a line of the text just parsed,
\* and the sentences of the text that mention a diagnosis
DiagnosisValues ==
  UNION {LineValues(req.text.v, label) : label \in {"Diagnosis", "Impression", "Assessment", "Dx"}} \ {""}
Mentions ==
  LET keyed(x) == Contains(lower(x), "diagnosis") \/ Contains(lower(x), "assessment")
  IN  SelectSeq(Sents(req.text.v), keyed)
\* C25: when one line of the document carries a diagnosis label with a value,
\* parse_fields_enhanced and parse_fields_with_spacy return that value, without
\* the label and without the text of later lines; with no such line,
\* parse_fields_with_spacy returns the first sentence that mentions a diagnosis
\* or an assessment
C25_DiagnosisLabelFirst ==
  pc \in {"parse_fields_enhanced", "parse_fields_with_spacy"} =>
    /\ \A v \in DiagnosisValues : Cardinality(DiagnosisValues) = 1 => ret.diagnosis = PyStr(strip(v))
    /\ (pc = "parse_fields_with_spacy" /\ DiagnosisValues = {} /\ Len(Mentions) > 0) =>
         ret.diagnosis = PyStr(strip(Mentions[1]))

\* the name label value of the text just parsed, and the PERSON entities of
\* 2 to 6 words in it, each with the place where it starts
NameLabel == _find_label_value(_lines(Or(req.text, PyStr("")).v), <<"Full Name", "Patient Name", "Name">>)
Persons == {n \in KnownPersons : Contains(req.text.v, n) /\ Len(words(n)) \in 2..6}
StartOf(n) ==
  SetMin({i \in 1..(Len(req.text.v) - Len(n) + 1) : SubSeq(req.text.v, i, i + Len(n) - 1) = n})
FirstLine == StripLines(split_nl(req.text.v))
\* C15 as stated: parse_fields_enhanced returns as patient_name the labelled
\* value; without one and with the NER model, the first PERSON entity of 2 to
\* 6 words in document order; without the model, the first non-empty line
C15_ThreeTiers ==
  pc = "parse_fields_enhanced" =>
    IF Truthy(NameLabel) THEN ret.patient_name = PyStr(strip(split_nl(NameLabel.v)[1]))
    ELSE IF ~IsNone(_NLP)
         THEN IF Persons = {} THEN ret.patient_name = None
              ELSE /\ ret.patient_name.v \in Persons
                   /\ \A o \in Persons : StartOf(ret.patient_name.v) <= StartOf(o)
    ELSE IF Len(FirstLine) = 0 THEN ret.patient_name = None
         ELSE ret.patient_name = PyStr(FirstLine[1])
\* C15 as the code has it: parse_fields_enhanced returns as patient_name the
\* labelled value; without one and with the NER model, the longest PERSON
\* entity of 2 to 6 words, the earlier one of two that are equally long;
\* without the model, or without such an entity, null
C15_LabelThenLongestPerson ==
  pc = "parse_fields_enhanced" =>
    IF Truthy(NameLabel) THEN ret.patient_name = PyStr(strip(split_nl(NameLabel.v)[1]))
    ELSE IF IsNone(_NLP) \/ Persons = {} THEN ret.patient_name = None
    ELSE /\ ret.patient_name.v \in Persons
         /\ \A o \in Persons \ {ret.patient_name.v} :
              \/ Len(ret.patient_name.v) > Len(o)
              \/ Len(ret.patient_name.v) = Len(o) /\ StartOf(ret.patient_name.v) < StartOf(o)
\* two PERSON entities, the second one longer, and the model loaded
C15_LongerSecondPerson ==
  /\ pc = "parse_fields_enhanced"
  /\ req.text.v = "Jane Doe and John Smith"
  /\ ~IsNone(_NLP)
  /\ ret.patient_name = PyStr("John Smith")

\* the lines of the text just given, each normalized by itself
EachLine ==
  LET ls == split_nl(Rewrite("crlf", req.text.v))
  IN  SelectSeq([k \in 1..Len(ls) |-> _normalize_ocr_noise(ls[k])], NonEmpty)
\* C16: _lines returns one entry for each non-empty line of the text, in
\* document order, each trimmed and with its whitespace collapsed; it returns
\* the empty sequence for the empty text
C16_LineSequence == pc = "_lines" => ret = EachLine

\* the parsers whose field set goes out in a response
Emitting == {"parse_fields_enhanced", "parse_fields_with_spacy", "extract_fields_from_text"}
\* C17: a sex that parse_fields_enhanced, parse_fields_with_spacy or
\* extract_fields_from_text returns is null, 'male' or 'female'
C17_SexCanonical == pc \in Emitting => ret.sex \in {None, PyStr("male"), PyStr("female")}

\* C18: in a field set that parse_fields_enhanced, parse_fields_with_spacy or
\* extract_fields_from_text returns, age is an integer or null and every
\* other field is a string or null
C18_OutputTyping ==
  pc \in Emitting =>
    \A f \in DOMAIN ret : ret[f].t \in (IF f = "age" THEN {"None", "int"} ELSE {"None", "str"})

(***************************************************************************)
(* The two extract-fields handlers serving one request                     *)
(***************************************************************************)
MaxTokens == 2
\* image_to_data: up to MaxTokens words, each with its conf (-1: none)
DataLists ==
  UNION {[1..n -> ({"Jane"} \X {-1, 0, 67, 100}) \cup ({"70"} \X {-1, 100})] : n \in 0..MaxTokens}
MergeLines == {"Name: Jane Doe", "Jane Doe", "Patient: Jane Doe", "Age: 0", "Age: 30", "Sex: M", "Dx: ",
               "Diagnosis: flu", "Rx: Amoxicillin 500mg", "Paracetamol 1g", "Weight: 68 kg", "BP: 120/80"}
JsonRequests ==
  {[kind |-> "json", text |-> x, data |-> <<>>] :
     x \in {None} \cup {PyStr(t) : t \in {"", SampleDoc} \cup MergeLines \cup {a \o "\n" \o b : a, b \in MergeLines}}}
FileRequests ==
  {[kind |-> "file", text |-> PyStr(t), data |-> d] :
     t \in {"", "Wt 70", "Jane Doe", "Name: Jane Doe\nWt 70", "Age: 0"}, d \in DataLists}

InitEndpoint ==
  /\ req \in JsonRequests \cup FileRequests
  /\ pc = "call"
  /\ ret = None
  /\ _NLP = None
  /\ first = <<>>
  /\ db = <<>>
  /\ issued = {}

\* ocr-service.py's handler; the parser loads the NER model when the text has
\* no labelled name
ServeExtractFields ==
  \E loads, enhanced \in BOOLEAN :
    /\ _NLP' = IF req.kind = "file" /\ enhanced /\ CallsLoad(req.text) THEN _load_spacy(loads) ELSE _NLP
    /\ Returns("extract_fields", extract_fields(req, _NLP', enhanced))
\* app.py's handler
ServeExtractFieldsRoute == Returns("extract_fields_route", extract_fields_route(req)) /\ UNCHANGED _NLP

NextEndpoint ==
  \/ ServeExtractFields
  \/ ServeExtractFieldsRoute
SpecEndpoint == InitEndpoint /\ [][NextEndpoint]_vars

\* C7: every per-field confidence the extract-fields endpoint computes is an
\* integer in 20..95, a null field gets exactly 20, and overall is in 0..100.
C7_ConfidenceBounds ==
  (pc = "extract_fields" /\ ret.status = 200) =>
    /\ ret.body.confidence["overall"] \in 0..100
    /\ \A f \in ScoredFields :
         /\ ret.body.confidence[f] \in 20..95
         /\ IsNone(Get(ret.body.fields, f)) => ret.body.confidence[f] = 20
\* a response with a field clamped at 95, a field at the floor 30 or above from
\* matched words, and a null field
C7_BoundsReached ==
  /\ pc = "extract_fields"
  /\ ret.status = 200
  /\ ret.body.confidence["overall"] = 100
  /\ \E f, g \in ScoredFields :
       /\ ~IsNone(Get(ret.body.fields, f)) /\ ret.body.confidence[f] = 95
       /\ IsNone(Get(ret.body.fields, g)) /\ ret.body.confidence[g] = 20

\* the two results that extract_fields_from_text merges, under the names of
\* the merged field set
MergedFields == {"patient_name", "age", "sex", "diagnosis", "medications", "blood_pressure", "weight"}
QuickResult(txt) ==
  LET parsed == parse_medical_record_quick(txt)
  IN  [patient_name |-> parsed.name, age |-> parsed.age, sex |-> parsed.sex,
       diagnosis |-> parsed.diagnosis, medications |-> parsed.prescription,
       blood_pressure |-> parsed.blood_pressure, weight |-> parsed.weight]
PrimaryResult(txt) ==
  LET own == OwnFields(normalize_lines(txt))
  IN  [patient_name |-> own.patient_name, age |-> own.age, sex |-> own.sex,
       diagnosis |-> own.diagnosis, medications |-> own.medications,
       blood_pressure |-> None, weight |-> None]

\* C8 as stated: each merged field is the primary extraction's value (the one
\* extract_fields_from_text makes first, from the normalized lines) if that is
\* non-null and otherwise the quick strategy's value, and is null only if it
\* is null in both.
C8_PrimaryFirst ==
  (pc = "extract_fields_route" /\ ret.status = 200) =>
    \A f \in MergedFields :
      ret.body.fields[f] = IF ~IsNone(PrimaryResult(req.text.v)[f]) THEN PrimaryResult(req.text.v)[f]
                           ELSE QuickResult(req.text.v)[f]

\* C8 amended: each of patient_name, age, sex, diagnosis and medications is
\* the quick strategy's value when that value is truthy (not None, '' or 0) and
\* otherwise the value of app.py's own line-based extraction; blood_pressure
\* and weight are the quick strategy's values.
C8_QuickFirst ==
  (pc = "extract_fields_route" /\ ret.status = 200) =>
    \A f \in MergedFields :
      ret.body.fields[f] = IF f \in {"blood_pressure", "weight"} \/ Truthy(QuickResult(req.text.v)[f])
                           THEN QuickResult(req.text.v)[f]
                           ELSE PrimaryResult(req.text.v)[f]
\* both strategies found a value for a field, the values differ, and a field
\* the quick strategy found falsy was taken from the line-based extraction
C8_BothFound ==
  /\ pc = "extract_fields_route"
  /\ ret.status = 200
  /\ \E f \in MergedFields :
       /\ Truthy(QuickResult(req.text.v)[f])
       /\ Truthy(PrimaryResult(req.text.v)[f])
       /\ QuickResult(req.text.v)[f] # PrimaryResult(req.text.v)[f]
       /\ ret.body.fields[f] = QuickResult(req.text.v)[f]
  /\ \E f \in MergedFields :
       /\ ~IsNone(QuickResult(req.text.v)[f])
       /\ ~Truthy(QuickResult(req.text.v)[f])
       /\ Truthy(PrimaryResult(req.text.v)[f])

\* C10: for an empty (or null) raw text the handlers do not fail: every field
\* is null, raw_text is '', every per-field confidence is 20, overall is 0 and
\* the notes hold the low-confidence advisory.
C10_EmptyInput ==
  (/\ ~Truthy(req.text)
   /\ req.data = <<>>
   /\ \/ pc = "extract_fields_route"
      \/ pc = "extract_fields" /\ req.kind = "file") =>
    /\ ret.status = 200
    /\ ret.body.success
    /\ \A f \in DOMAIN ret.body.fields : f # "raw_text" => IsNone(ret.body.fields[f])
    /\ ret.body.fields.raw_text = PyStr("")
    /\ "confidence" \in DOMAIN ret.body
    /\ \A f \in ScoredFields : ret.body.confidence[f] = 20
    /\ ret.body.confidence["overall"] = 0
    /\ \E k \in 1..Len(ret.body.notes) : ret.body.notes[k] = LowNote

\* round(num / den) as Python rounds: to the nearest integer, a half to the
\* even one
Round(num, den) ==
  LET q == num \div den
      r2 == 2 * (num % den)
  IN  IF r2 > den \/ (r2 = den /\ q % 2 = 1) THEN q + 1 ELSE q
\* C19: for every field with a value, the confidence of the field is
\* clamp(round(matched_avg * 0.8 + 18), 30, 95), where matched_avg is the mean
\* confidence of the tokens found in the value, or the overall average when no
\* token is found in it; the integer 0 is a value
C19_ConfidenceFormula ==
  (pc = "extract_fields" /\ ret.status = 200) =>
    \A f \in ScoredFields :
      LET value == Get(ret.body.fields, f)
          in(d) == Contains(lower(Str(value)), lower(d[1]))
          matches == SelectSeq(compute_confidences(req.data).tokens, in)
          num == IF Len(matches) > 0 THEN SumConf(matches) ELSE ret.body.confidence["overall"]
          den == IF Len(matches) > 0 THEN Len(matches) ELSE 1
      IN  ~IsNone(value) =>
            ret.body.confidence[f] = Max(30, Min(95, Round(8 * num + 180 * den, 10 * den)))

\* C27: the notes of an extraction result hold the advisory to retake the
\* image, and nothing else, when overall is below 50, and are empty when
\* overall is 50 or more
C27_AdvisoryNote ==
  (pc = "extract_fields" /\ ret.status = 200) =>
    ret.body.notes = IF ret.body.confidence["overall"] < 50 THEN <<LowNote>> ELSE <<>>
\* an upload whose words average exactly 50: no note
C27_NoNoteAtFifty ==
  /\ pc = "extract_fields"
  /\ ret.status = 200
  /\ ret.body.confidence["overall"] = 50
  /\ ret.body.notes = <<>>

(***************************************************************************)
(* One server process serving uploads one after the other: _NLP persists   *)
(* between the requests, and each attempt to load the NER model may fail   *)
(* or succeed                                                              *)
(***************************************************************************)
ProcessRequests ==
  {[kind |-> "file", text |-> PyStr(t), data |-> d] :
     t \in {"", "Wt 70", "Jane Doe", "Name: Jane Doe"}, d \in {<<>>, <<<<"Jane", 100>>>>}}
InitProcess ==
  /\ req \in ProcessRequests
  /\ pc = "call"
  /\ ret = None
  /\ _NLP = None
  /\ first = <<>>
  /\ db = <<>>
  /\ issued = {}
\* the process serves the request; the first request and its response are kept
Serve ==
  \E loads \in BOOLEAN :
    /\ pc = "call"
    /\ _NLP' = IF CallsLoad(req.text) THEN _load_spacy(loads) ELSE _NLP
    /\ ret' = extract_fields(req, _NLP', TRUE)
    /\ pc' = "extract_fields"
    /\ first' = IF first = <<>> THEN <<[req |-> req, ret |-> ret']>> ELSE first
    /\ UNCHANGED <<req, db, issued>>
\* the next upload arrives
Arrive ==
  /\ pc = "extract_fields"
  /\ req' \in ProcessRequests
  /\ pc' = "call"
  /\ ret' = None
  /\ UNCHANGED <<_NLP, first, db, issued>>
NextProcess ==
  \/ Serve
  \/ Arrive
SpecProcess == InitProcess /\ [][NextProcess]_vars

\* C9: a request with the same raw text and the same token confidences as the
\* first request of the process gets the same fields, confidences and notes,
\* whatever was served and loaded in between.
C9_SameInputSameResult ==
  (pc = "extract_fields" /\ first # <<>> /\ first[1].req = req) => ret = first[1].ret
(***************************************************************************)
(* Concurrent parse invocations in one process (Flask serves each request  *)
(* on its own thread): every thread calls _extract_name_via_spacy on the   *)
(* text, and the steps of _load_spacy interleave.  pc[t] is the position   *)
(* of thread t, ret[t] its local nlp, whether it ran spacy.load, and the   *)
(* name it returned.                                                       *)
(***************************************************************************)
NumThreads == 2
Threads == 1..NumThreads
\* the object that spacy.load returns when thread t runs it: every load
\* makes a new object
Loaded(t) == [t |-> "model", v |-> "en_core_web_sm", by |-> t]
InitThreads ==
  /\ req \in {TextCall(t) : t \in {"Jane Doe", "Cher", "Wt 70"}}
  /\ pc = [t \in Threads |-> "call"]
  /\ ret = [t \in Threads |-> [nlp |-> None, load |-> "not run", name |-> None]]
  /\ _NLP = None
  /\ first = <<>>
  /\ db = <<>>
  /\ issued = {}
\* thread t moves from position a to position b with its locals set to r
Step(t, a, b, r) ==
  /\ pc[t] = a
  /\ pc' = [pc EXCEPT ![t] = b]
  /\ ret' = [ret EXCEPT ![t] = r]
  /\ UNCHANGED <<req, first, db, issued>>
\* if _NLP is not None: return _NLP
TestNLP(t) == Step(t, "call", IF IsNone(_NLP) THEN "load" ELSE "return", ret[t]) /\ UNCHANGED _NLP
\* spacy.load('en_core_web_sm') returns a model or raises
SpacyLoad(t) ==
  \E loads \in BOOLEAN :
    /\ Step(t, "load", IF loads THEN "store" ELSE "except",
            [ret[t] EXCEPT !.nlp = IF loads THEN Loaded(t) ELSE None,
                           !.load = IF loads THEN "loaded" ELSE "failed"])
    /\ UNCHANGED _NLP
\* _NLP = spacy.load(...)
StoreNLP(t) == Step(t, "store", "return", ret[t]) /\ _NLP' = ret[t].nlp
\* except Exception: _NLP = None; return None, and the caller returns None
ExceptNLP(t) == Step(t, "except", "done", [ret[t] EXCEPT !.nlp = None]) /\ _NLP' = None
\* return _NLP, and the caller takes the name from the entities of nlp(text)
ReturnNLP(t) ==
  /\ Step(t, "return", "done",
          [ret[t] EXCEPT !.nlp = _NLP, !.name = _extract_name_via_spacy(req.text.v, _NLP)])
  /\ UNCHANGED _NLP
NextThreads ==
  \/ \E t \in Threads : TestNLP(t)
  \/ \E t \in Threads : SpacyLoad(t)
  \/ \E t \in Threads : StoreNLP(t)
  \/ \E t \in Threads : ExceptNLP(t)
  \/ \E t \in Threads : ReturnNLP(t)
SpecThreads == InitThreads /\ [][NextThreads]_vars

\* C11: under any interleaving of the invocations spacy.load is executed at
\* most once, and the invocations that return a loaded handle all return the
\* same handle.
C11_SingleLoad ==
  /\ Cardinality({t \in Threads : ret[t].load # "not run"}) <= 1
  /\ \A t, u \in Threads :
       (pc[t] = "done" /\ pc[u] = "done" /\ ~IsNone(ret[t].nlp) /\ ~IsNone(ret[u].nlp))
         => ret[t].nlp = ret[u].nlp

\* C12: once a spacy.load has failed, no invocation that starts later runs
\* spacy.load again: an invocation that tests _NLP after a failure does not go
\* on to load.
C12_NoRetryAfterFailure ==
  [][(\E u \in Threads : ret[u].load = "failed")
       => \A t \in Threads : ~(pc[t] = "call" /\ pc'[t] = "load")]_vars

(***************************************************************************)
(* The text helpers of parse_enhanced.py called one at a time: the blood   *)
(* pressure extractor, the label lookup and the noise normalizer           *)
(***************************************************************************)
BpTexts ==
  Glue({"", "BP ", "BP: ", "B.P. - ", "Blood Pressure "},
       {"120/80", "120 / 80", "120 over 80", "120:80", "90/60mmHg", "1200/80", "12/8"}, {""})
  \cup {"110 over 70 BP 120/80", "12:30 BP 120/80", "120/80 130 over 85", "at 12:30", "x120/80",
        "130 : 85 then 120 over 80", "BP\n120/80", "no reading", ""}
MaxLines == 2
MaxNoise == 3
\* every text of at most n of the characters the normalizer rewrites, and a letter
NoiseChars == {"a", " ", "\t", "\r", "\n", "_", "|", "^", "="}
RECURSIVE NoiseTexts(_)
NoiseTexts(n) ==
  LET more(S) == S \cup {t \o c : t \in S, c \in NoiseChars}
  IN  IF n = 0 THEN {""} ELSE more(NoiseTexts(n - 1))
\* the line sequences and synonym lists given to the label lookups
LabelLines == {"Name", "Name:", "Full Name: Bob", "Name - Al", "Surname: X", "Dx: flu", "Diagnosis: cold",
               "Age 30", "Patient: Jo"}
LineSeqs == UNION {[1..n -> LabelLines] : n \in 0..MaxLines}
LabelLists == {<<"Full Name", "Patient Name", "Name">>, <<"Diagnosis", "Impression", "Assessment", "Dx">>,
               <<"Dx", "Diagnosis">>}
\* a call with lines and a synonym list, or with lines and the field whose
\* patterns extract_fields_from_text passes
LabelCall(kind, lines, labels) == [kind |-> kind, text |-> None, data |-> <<lines, labels>>]
FieldPatterns(f) == IF f = <<"patient_name">> THEN NamePatterns ELSE DiagnosisPatterns
InitText ==
  /\ req \in {TextCall(t) : t \in BpTexts \cup NoiseTexts(MaxNoise)}
           \cup {LabelCall("labels", ls, labels) : ls \in LineSeqs, labels \in LabelLists}
           \cup {LabelCall("patterns", ls, <<f>>) : ls \in LineSeqs, f \in {"patient_name", "diagnosis"}}
  /\ pc = "call"
  /\ ret = None
  /\ _NLP = None
  /\ first = <<>>
  /\ db = <<>>
  /\ issued = {}
CallBp == req.kind = "text" /\ Returns("_extract_bp", _extract_bp(req.text.v)) /\ UNCHANGED _NLP
CallNormalize ==
  /\ req.kind = "text"
  /\ Returns("_normalize_ocr_noise", PyStr(_normalize_ocr_noise(req.text.v)))
  /\ UNCHANGED _NLP
CallFindLabel ==
  /\ req.kind = "labels"
  /\ Returns("_find_label_value", _find_label_value(req.data[1], req.data[2]))
  /\ UNCHANGED _NLP
CallFieldByLabel ==
  /\ req.kind = "patterns"
  /\ Returns("extract_field_by_label", extract_field_by_label(req.data[1], FieldPatterns(req.data[2])))
  /\ UNCHANGED _NLP
NextText ==
  \/ CallBp
  \/ CallNormalize
  \/ CallFindLabel
  \/ CallFieldByLabel
SpecText == InitText /\ [][NextText]_vars

\* C21: the blood pressure is the match of the first pattern, in the order
\* labelled S/D, S over D, bare S/D or S:D, that matches anywhere in the text,
\* whatever comes first in the text; a result is S/D with S and D of two or
\* three digits and no whitespace.
C21_BpPriority ==
  (pc = "_extract_bp") =>
    LET hit == {k \in 1..3 : isearch(BpPatterns[k], req.text.v).ok}
        canon(m) == PyStr(gtext(m, 1) \o "/" \o gtext(m, 2))
        D23 == Rep(Cls(Digit), 2, 3)
    IN  /\ ret = IF hit = {} THEN None ELSE canon(isearch(BpPatterns[SetMin(hit)], req.text.v))
        /\ ~IsNone(ret) => fullmatch(Cat(<<D23, Lit("/"), D23>>), ret.v).ok
\* a labelled reading after an earlier "over" reading: the labelled one is returned
C21_LabelledAfterOver ==
  /\ pc = "_extract_bp"
  /\ req.text.v = "110 over 70 BP 120/80"
  /\ ret = PyStr("120/80")

\* line ln holds one of the synonyms, in any case; and holds one followed by
\* at least one more character
HasLabel(ln, labels) == \E k \in 1..Len(labels) : Contains(lower(ln), lower(labels[k]))
HasValue(ln, labels) ==
  \E k \in 1..Len(labels) : \E p \in 1..Len(ln) :
    /\ p + Len(labels[k]) <= Len(ln)
    /\ lower(SubSeq(ln, p, p + Len(labels[k]) - 1)) = lower(labels[k])
\* the lines of the call just made that a pattern of the list matches
Matching ==
  {i \in 1..Len(req.data[1]) :
     \E p \in 1..Len(FieldPatterns(req.data[2])) : isearch(FieldPatterns(req.data[2])[p], req.data[1][i]).ok}
\* C26 as stated: the label lookup returns the value of the first line that
\* holds any synonym, whatever its place in the list, and null when no line
\* holds one
C26_FirstLineWithSynonym ==
  /\ pc = "_find_label_value" =>
       LET with == {i \in 1..Len(req.data[1]) : HasLabel(req.data[1][i], req.data[2])}
       IN  ret = IF with = {} THEN None ELSE _find_label_value(<<req.data[1][SetMin(with)]>>, req.data[2])
  /\ pc = "extract_field_by_label" =>
       ret = IF Matching = {} THEN None ELSE extract_field_by_label(<<req.data[1][SetMin(Matching)]>>, FieldPatterns(req.data[2]))
\* C26: the label lookup returns the value of the first line, top to bottom,
\* on which a synonym is followed by at least one more character (for
\* extract_field_by_label: that a pattern of the list matches), whatever the
\* synonym's place in the list; it returns null when there is no such line
C26_FirstLineWithValue ==
  /\ pc = "_find_label_value" =>
       LET with == {i \in 1..Len(req.data[1]) : HasValue(req.data[1][i], req.data[2])}
       IN  ret = IF with = {} THEN None ELSE _find_label_value(<<req.data[1][SetMin(with)]>>, req.data[2])
  /\ pc = "extract_field_by_label" =>
       ret = IF Matching = {} THEN None ELSE extract_field_by_label(<<req.data[1][SetMin(Matching)]>>, FieldPatterns(req.data[2]))
\* the later synonym of the list on the earlier line wins
C26_LaterSynonymEarlierLine ==
  /\ pc = "_find_label_value"
  /\ req.data = <<(<<"Dx: flu", "Diagnosis: cold">>), (<<"Diagnosis", "Impression", "Assessment", "Dx">>)>>
  /\ ret = PyStr("flu")

\* what one pass of the normalizer leaves none of, but for the dashes: a tab,
\* a CR, a run of two or more of "_" and "|", two whitespace characters in a
\* row, whitespace at either end
Clean(t) ==
  /\ \A i \in 1..Len(t) : At(t, i) \notin {"\t", "\r"}
  /\ \A i \in 1..Len(t) - 1 :
       /\ ~(At(t, i) \in {"_", "|"} /\ At(t, i + 1) \in {"_", "|"})
       /\ ~(At(t, i) \in Space /\ At(t, i + 1) \in Space)
  /\ t # "" => (At(t, 1) \notin Space /\ At(t, Len(t)) \notin Space)
MaxRecords == 3
AdminUser == [id |-> 1, username |-> "admin", role |-> "admin"]
\* utils.create_token: the payload of the token of user row u, its role
\* stripped and in lower case
create_token(u) == [sub |-> u.id, username |-> u.username, role |-> lower(strip(u.role))]
\* utils.token_required: request.user, from the payload of the token
token_required(tok) == [id |-> tok.sub, username |-> tok.username, role |-> lower(strip(tok.role))]
\* the handler's response, with the call that was served
Reply(name, call, status, body) ==
  /\ pc' = name
  /\ req' = call
  /\ ret' = [status |-> status, body |-> body]
  /\ UNCHANGED <<_NLP, first, issued>>
\* two users hold tokens; no record yet
InitRecords ==
  /\ db = [users |-> {AdminUser, [id |-> 2, username |-> "bob", role |-> "doctor"]},
           doctors |-> {},
           medical_records |-> {},
           next |-> [users |-> 3, doctors |-> 1, medical_records |-> 1]]
  /\ issued = {create_token(u) : u \in db.users}
  /\ req = None
  /\ pc = "call"
  /\ ret = None
  /\ _NLP = None
  /\ first = <<>>
\* col LIKE '%q%' for a q without wildcards, under a case-insensitive collation
Like(col, q) == col.t = "str" /\ Contains(lower(col.v), lower(q.v))
list_records(tok, q) ==
  LET user_id == token_required(tok).id
      rows == {r \in db.medical_records :
                 /\ r.user_id = user_id
                 /\ Truthy(q) => (Like(r.patient_name, q) \/ Like(r.raw_text, q))}
  IN  /\ Reply("list_records", [user |-> token_required(tok), q |-> q], 200, [success |-> TRUE, records |-> rows])
      /\ UNCHANGED db
create_record(tok, body) ==
  LET user_id == token_required(tok).id
      call == [user |-> token_required(tok), body |-> body]
      new_id == db.next.medical_records
      new_rec == [id |-> new_id, user_id |-> user_id,
                  patient_name |-> Get(body, "patient_name"), raw_text |-> Get(body, "raw_text")]
  IN  IF ~Truthy(Get(body, "patient_name")) \/ ~Truthy(Get(body, "raw_text"))
      THEN /\ Reply("create_record", call, 400, [error |-> "patient_name and raw_text are required"])
           /\ UNCHANGED db
      ELSE /\ new_id <= MaxRecords
           /\ db' = [db EXCEPT !.medical_records = @ \cup {new_rec}, !.next.medical_records = @ + 1]
           /\ Reply("create_record", call, 201, [success |-> TRUE, record_id |-> new_id, record |-> new_rec])
get_record(tok, rec_id) ==
  LET user_id == token_required(tok).id
      call == [user |-> token_required(tok), rec_id |-> rec_id]
      rows == {r \in db.medical_records : r.id = rec_id /\ r.user_id = user_id}
  IN  /\ IF rows = {} THEN Reply("get_record", call, 404, [error |-> "Record not found"])
         ELSE Reply("get_record", call, 200, [success |-> TRUE, record |-> CHOOSE r \in rows : TRUE])
      /\ UNCHANGED db
\* the columns that update_record takes from the body
Updatable == {"patient_name", "raw_text"}
\* row r with the columns of the body set
SetColumns(r, body) ==
  [c \in DOMAIN r |-> IF c \in Updatable \cap DOMAIN body THEN body[c] ELSE r[c]]
\* update_record with WHERE id=%s alone
update_record_any_owner(tok, rec_id, body) ==
  LET user_id == token_required(tok).id
      call == [user |-> token_required(tok), rec_id |-> rec_id, body |-> body]
      Hit(r) == r.id = rec_id
      after == {IF Hit(r) THEN SetColumns(r, body) ELSE r : r \in db.medical_records}
      rows == {r \in after : r.id = rec_id /\ r.user_id = user_id}
  IN  IF Updatable \cap DOMAIN body = {}
      THEN /\ Reply("update_record", call, 400, [error |-> "No fields provided"])
           /\ UNCHANGED db
      ELSE /\ db' = [db EXCEPT !.medical_records = after]
           /\ Reply("update_record", call, 200,
                    [success |-> TRUE, record |-> IF rows = {} THEN None ELSE CHOOSE r \in rows : TRUE])
update_record(tok, rec_id, body) ==
  LET user_id == token_required(tok).id
      call == [user |-> token_required(tok), rec_id |-> rec_id, body |-> body]
      Hit(r) == r.id = rec_id /\ r.user_id = user_id
      after == {IF Hit(r) THEN SetColumns(r, body) ELSE r : r \in db.medical_records}
      rows == {r \in after : r.id = rec_id /\ r.user_id = user_id}
  IN  IF Updatable \cap DOMAIN body = {}
      THEN /\ Reply("update_record", call, 400, [error |-> "No fields provided"])
           /\ UNCHANGED db
      ELSE /\ db' = [db EXCEPT !.medical_records = after]
           /\ Reply("update_record", call, 200,
                    [success |-> TRUE, record |-> IF rows = {} THEN None ELSE CHOOSE r \in rows : TRUE])
delete_record(tok, rec_id) ==
  LET user_id == token_required(tok).id
  IN  /\ db' = [db EXCEPT !.medical_records = {r \in @ : ~(r.id = rec_id /\ r.user_id = user_id)}]
      /\ Reply("delete_record", [user |-> token_required(tok), rec_id |-> rec_id], 200, [success |-> TRUE])
\* the bodies of the calls: a complete record, one without raw_text; a new
\* name, a user_id alone, a new name with a user_id
CreateBodies ==
  {[patient_name |-> PyStr("Ann"), raw_text |-> PyStr("rx")], [patient_name |-> PyStr("Ann")]}
UpdateBodies ==
  {[patient_name |-> PyStr("Bo")]} \cup {[user_id |-> PyInt(u)] : u \in 1..2}
    \cup {[patient_name |-> PyStr("Bo"), user_id |-> PyInt(u)] : u \in 1..2}
NextRecords ==
  \/ \E tok \in issued, q \in {None, PyStr("an"), PyStr("bo")} : list_records(tok, q)
  \/ \E tok \in issued, body \in CreateBodies : create_record(tok, body)
  \/ \E tok \in issued, rec_id \in 1..MaxRecords : get_record(tok, rec_id)
  \/ \E tok \in issued, rec_id \in 1..MaxRecords, body \in UpdateBodies : update_record(tok, rec_id, body)
  \/ \E tok \in issued, rec_id \in 1..MaxRecords : delete_record(tok, rec_id)
SpecRecords == InitRecords /\ [][NextRecords]_vars

\* the rows that the response just given holds
Returned(op, resp) ==
  IF op = "list_records" THEN resp.body.records
  ELSE IF op \in {"get_record", "create_record"} /\ resp.status \in {200, 201} THEN {resp.body.record}
  ELSE IF op = "update_record" /\ resp.status = 200 /\ resp.body.record # None THEN {resp.body.record}
  ELSE {}
\* C29: a call of the medical-records API by user U returns only rows whose
\* user_id is U's id, and leaves every row of another user as it was: not
\* changed, not deleted
C29_OwnRecordsOnly ==
  [][pc' \in {"list_records", "create_record", "get_record", "update_record", "delete_record"} =>
       /\ \A r \in Returned(pc', ret') : r.user_id = req'.user.id
       /\ {r \in db'.medical_records : r.user_id # req'.user.id}
            = {r \in db.medical_records : r.user_id # req'.user.id}]_vars
\* a user has aimed an update at a record of another user: nothing came back
\* and the record has kept its name
C29_UpdateOfAnothersRecord ==
  /\ pc = "update_record"
  /\ ret.status = 200
  /\ ret.body.record = None
  /\ \E r \in db.medical_records :
       r.id = req.rec_id /\ r.user_id # req.user.id /\ r.patient_name = PyStr("Ann")

(***************************************************************************)
(* main-api: the accounts handlers (auth.py, doctors.py).  A row of users  *)
(* keeps id, username, role, and a row of doctors keeps id, username: the  *)
(* columns the handlers read.  users.username is taken to be a UNIQUE key, *)
(* as signup's handler of IntegrityError (auth.py 53-55) expects; an id    *)
(* that AUTO_INCREMENT has given is not given again.  The password check   *)
(* of signin is the input ok.  audit_logs is left out, and with it the     *)
(* doctor row of create_doctor's response, which is looked up by the id of *)
(* the audit row just written (cur.lastrowid, doctors.py 78).              *)
(***************************************************************************)
MaxUsers == 2
MaxSessions == 2
Usernames == {"admin", "bob"}
\* create_app makes sure that the user admin exists; nobody has signed in
InitUsers ==
  /\ db = [users |-> {AdminUser}, doctors |-> {}, medical_records |-> {},
           next |-> [users |-> 2, doctors |-> 1, medical_records |-> 1]]
  /\ issued = {}
  /\ req = None
  /\ pc = "call"
  /\ ret = None
  /\ _NLP = None
  /\ first = <<>>
\* utils.check_unique_username: no row of users has the name
check_unique_username(username) == \A u \in db.users : u.username # username.v
\* INSERT INTO users: the row, and the counter moved
InsertUser(d, username, role) ==
  [d EXCEPT !.users = @ \cup {[id |-> d.next.users, username |-> username.v, role |-> role]},
            !.next.users = @ + 1]
signup(data) ==
  LET username == Get(data, "username")
      given == IF "role" \in DOMAIN data THEN lower(strip(data["role"].v)) ELSE "doctor"
      role == IF given \in {"doctor", "admin", "staff"} THEN given ELSE "doctor"
      answer(status, body) == Reply("signup", [data |-> data], status, body)
  IN  IF ~Truthy(username) \/ ~Truthy(Get(data, "password"))
      THEN answer(400, [error |-> "username and password required"]) /\ UNCHANGED db
      ELSE IF username.v = "admin"
      THEN answer(403, [error |-> "Cannot create built-in admin user"]) /\ UNCHANGED db
      ELSE IF ~check_unique_username(username)
      THEN answer(409, [error |-> "user already exists"]) /\ UNCHANGED db
      ELSE /\ db.next.users <= MaxUsers
           /\ db' = InsertUser(db, username, role)
           /\ answer(201, [success |-> TRUE,
                           user |-> [id |-> db.next.users, username |-> username.v, role |-> role]])
\* signin gives a token to who knows the password, and puts the role of the
\* user named admin back to admin
signin(data, ok) ==
  LET found == {u \in db.users : u.username = Get(data, "username").v}
      user == CHOOSE u \in found : TRUE
      fixed == [user EXCEPT !.role = IF user.username = "admin" THEN "admin" ELSE @]
      answer(status, body) ==
        /\ pc' = "signin"
        /\ req' = [data |-> data]
        /\ ret' = [status |-> status, body |-> body]
        /\ UNCHANGED <<_NLP, first>>
  IN  IF ~Truthy(Get(data, "username")) \/ ~Truthy(Get(data, "password"))
      THEN answer(400, [error |-> "username and password required"]) /\ UNCHANGED <<db, issued>>
      ELSE IF found = {} \/ ~ok
      THEN answer(401, [error |-> "invalid credentials"]) /\ UNCHANGED <<db, issued>>
      ELSE /\ Cardinality(issued \cup {create_token(fixed)}) <= MaxSessions
           /\ db' = [db EXCEPT !.users = (@ \ {user}) \cup {fixed}]
           /\ issued' = issued \cup {create_token(fixed)}
           /\ answer(200, [access_token |-> create_token(fixed), user |-> fixed])
delete_current_user(tok) ==
  LET u == token_required(tok)
  IN  IF u.username = "admin"
      THEN Reply("delete_current_user", [user |-> u], 403, [error |-> "Cannot delete main admin account"])
           /\ UNCHANGED db
      ELSE /\ db' = [db EXCEPT !.doctors = {d \in @ : d.username # u.username},
                               !.users = {x \in @ : x.id # u.id}]
           /\ Reply("delete_current_user", [user |-> u], 200, [success |-> TRUE])
create_doctor(tok, data) ==
  LET username == Get(data, "username")
      role == IF "role" \in DOMAIN data THEN data["role"].v ELSE "doctor"
      answer(status, body) == Reply("create_doctor", [user |-> token_required(tok), data |-> data], status, body)
      with(d) == [d EXCEPT !.doctors = @ \cup {[id |-> d.next.doctors, username |-> username.v]},
                           !.next.doctors = @ + 1]
  IN  IF ~Truthy(username) \/ ~Truthy(Get(data, "name"))
      THEN answer(400, [error |-> "username and name are required"]) /\ UNCHANGED db
      ELSE IF ~Truthy(Get(data, "password"))
      THEN answer(400, [error |-> "password is required for new doctor accounts"]) /\ UNCHANGED db
      ELSE IF ~check_unique_username(username)
      THEN answer(409, [error |-> "username already exists"]) /\ UNCHANGED db
      ELSE /\ db.next.users <= MaxUsers
           /\ db.next.doctors <= MaxUsers
           /\ db' = with(InsertUser(db, username, role))
           /\ answer(201, [success |-> TRUE])
update_doctor(tok, id, data) ==
  LET new_username == Get(data, "username")
      role == Get(data, "role")
      row == {u \in db.users : u.id = id}
      current_username == (CHOOSE u \in row : TRUE).username
      set == [id |-> id, username |-> new_username.v, role |-> Or(role, PyStr("doctor")).v]
      answer(status, body) == Reply("update_doctor", [user |-> token_required(tok), id |-> id, data |-> data], status, body)
  IN  IF ~Truthy(new_username) \/ ~Truthy(Get(data, "name"))
      THEN answer(400, [error |-> "username and name are required"]) /\ UNCHANGED db
      ELSE IF row = {}
      THEN answer(404, [error |-> "user not found"]) /\ UNCHANGED db
      ELSE IF \E u \in db.users : u.id # id /\ u.username = new_username.v
      THEN answer(500, [error |-> "IntegrityError"]) /\ UNCHANGED db
      ELSE /\ db' = [db EXCEPT !.users = (@ \ row) \cup {set},
                               !.doctors = {IF d.username = current_username
                                            THEN [d EXCEPT !.username = new_username.v] ELSE d : d \in @}]
           /\ answer(200, [success |-> TRUE])
delete_doctor(tok, id) ==
  LET row == {d \in db.doctors : d.id = id}
      urow == {u \in db.users : u.id = id}
      answer(status, body) == Reply("delete_doctor", [user |-> token_required(tok), id |-> id], status, body)
  IN  IF row # {}
      THEN /\ db' = [db EXCEPT !.doctors = @ \ row,
                               !.users = {u \in @ : u.username # (CHOOSE d \in row : TRUE).username}]
           /\ answer(200, [success |-> TRUE])
      ELSE IF urow = {}
      THEN answer(404, [error |-> "user/doctor not found"]) /\ UNCHANGED db
      ELSE /\ db' = [db EXCEPT !.doctors = {d \in @ : d.username # (CHOOSE u \in urow : TRUE).username},
                               !.users = @ \ urow]
           /\ answer(200, [success |-> TRUE])
\* the bodies of the calls: a user name or none, with or without a role
AccountBodies ==
  {[username |-> PyStr(n), name |-> PyStr("Dr"), password |-> PyStr("pw")] : n \in Usernames}
    \cup {[username |-> PyStr(n), name |-> PyStr("Dr"), password |-> PyStr("pw"), role |-> PyStr("admin")] : n \in Usernames}
    \cup {[name |-> PyStr("Dr"), password |-> PyStr("pw")]}
NextUsers ==
  \/ \E data \in AccountBodies : signup(data)
  \/ \E data \in AccountBodies, ok \in BOOLEAN : signin(data, ok)
  \/ \E tok \in issued : delete_current_user(tok)
  \/ \E tok \in issued, data \in AccountBodies : create_doctor(tok, data)
  \/ \E tok \in issued, id \in 1..MaxUsers, data \in AccountBodies : update_doctor(tok, id, data)
  \/ \E tok \in issued, id \in 1..MaxUsers : delete_doctor(tok, id)
SpecUsers == InitUsers /\ [][NextUsers]_vars

\* C30: the built-in user admin that existed at the start still exists with
\* the username admin, and no other user has that username
C30_AdminKept ==
  /\ AdminUser.id \in {u.id : u \in {x \in db.users : x.username = "admin"}}
  /\ Cardinality({u \in db.users : u.username = "admin"}) = 1
====
